---- MODULE Spec2Model ----
(***************************************************************************)
(* Model of the patch engine of mcp-file-operations-server                 *)
(* (services/PatchService.ts, services/FileService.ts, config/defaults.ts). *)
(*                                                                         *)
(* A string of the program is a sequence of one-character strings, so that *)
(* split, trim, includes and join are computed as the code computes them.  *)
(* The file system is a function from the existing paths to their content. *)
(* One applyPatch invocation is a process that moves from await to await:  *)
(* every file-system call is one atomic step that either takes effect or   *)
(* throws without effect.                                                  *)
(***************************************************************************)
EXTENDS Integers, Sequences, FiniteSets, TLC

\* ------------------------------------------------------------------------
\* Bounds of the model
\* ------------------------------------------------------------------------

\* applyPatch invocations one caller issues one after another
MaxCalls == 2

\* lines of the contents given to the line strategy on its own
MaxLines == 3

\* entries of the lineNumbers given to the line strategy on its own
MaxLineNumbers == 2

\* ------------------------------------------------------------------------
\* Strings
\* ------------------------------------------------------------------------

NL == "\n"
CR == "\r"
TAB == "\t"
SP == " "

\* the character class [ \t]
IsBlank(c) == c \in {SP, TAB}

\* the character class \s, as far as the alphabet of the model goes
IsSpace(c) == c \in {SP, TAB, NL, CR}

Max(a, b) == IF a >= b THEN a ELSE b

Min(a, b) == IF a <= b THEN a ELSE b

Abs(a) == IF a >= 0 THEN a ELSE 0 - a

\* s.slice(from - 1, to) for 1-based inclusive positions
Slice(s, from, to) == IF from > to THEN << >> ELSE SubSeq(s, from, to)

\* s.startsWith(sub, at - 1)
MatchesAt(s, sub, at) ==
    /\ at + Len(sub) - 1 <= Len(s)
    /\ \A k \in 1..Len(sub) : s[at + k - 1] = sub[k]

\* String.prototype.includes
Includes(s, sub) == \E at \in 1..(Len(s) + 1) : MatchesAt(s, sub, at)

\* String.prototype.split('\n'): always at least one piece
RECURSIVE SplitOn(_, _)
SplitOn(s, sep) ==
    IF \E i \in 1..Len(s) : s[i] = sep
    THEN LET i == CHOOSE i \in 1..Len(s) :
                      s[i] = sep /\ \A j \in 1..(i - 1) : s[j] # sep
         IN  <<Slice(s, 1, i - 1)>> \o SplitOn(Slice(s, i + 1, Len(s)), sep)
    ELSE <<s>>

\* String.prototype.split(/\r\n|\r|\n/)
RECURSIVE SplitLineEndings(_)
SplitLineEndings(s) ==
    IF \E i \in 1..Len(s) : s[i] \in {CR, NL}
    THEN LET i == CHOOSE i \in 1..Len(s) :
                      s[i] \in {CR, NL} /\ \A j \in 1..(i - 1) : s[j] \notin {CR, NL}
             w == IF s[i] = CR /\ i < Len(s) /\ s[i + 1] = NL THEN 2 ELSE 1
         IN  <<Slice(s, 1, i - 1)>> \o SplitLineEndings(Slice(s, i + w, Len(s)))
    ELSE <<s>>

\* Array.prototype.join
RECURSIVE Join(_, _)
Join(parts, sep) ==
    IF Len(parts) = 0 THEN << >>
    ELSE IF Len(parts) = 1 THEN parts[1]
    ELSE parts[1] \o sep \o Join(Tail(parts), sep)

\* line.replace(/[ \t]+$/, '')
RECURSIVE TrimTrailing(_)
TrimTrailing(line) ==
    IF Len(line) > 0 /\ IsBlank(line[Len(line)])
    THEN TrimTrailing(Slice(line, 1, Len(line) - 1))
    ELSE line

\* the length of the match of /^[ \t]+/ on a line, 0 for no match
RECURSIVE LeadingBlanks(_)
LeadingBlanks(line) ==
    IF Len(line) > 0 /\ IsBlank(line[1])
    THEN 1 + LeadingBlanks(Tail(line))
    ELSE 0

\* line.replace(/^[ \t]+/, indent)
ReplaceIndentation(line, indent) ==
    IF LeadingBlanks(line) > 0
    THEN indent \o Slice(line, LeadingBlanks(line) + 1, Len(line))
    ELSE line

\* line.trim().length === 0
IsEmptyLine(line) == \A k \in 1..Len(line) : IsSpace(line[k])

\* ------------------------------------------------------------------------
\* Whitespace configuration and normalization
\* ------------------------------------------------------------------------

DEFAULT_WHITESPACE_CONFIG ==
    [ preserveIndentation    |-> TRUE,
      preserveLineEndings    |-> TRUE,
      normalizeWhitespace    |-> TRUE,
      trimTrailingWhitespace |-> TRUE,
      defaultIndentation     |-> <<SP, SP, SP, SP>>,
      defaultLineEnding      |-> <<NL>> ]

\* the detected line ending of normalizeContent
DetectLineEndings(content) ==
    IF Includes(content, <<CR, NL>>) THEN <<CR, NL>>
    ELSE IF Includes(content, <<CR>>) THEN <<CR>>
    ELSE <<NL>>

\* config.x || fallback for a string option
OrDefault(s, fallback) == IF Len(s) = 0 THEN fallback ELSE s

\* a map callback that puts the default indentation in front of the line
ProcessLinePrependingIndentation(line, config) ==
    LET trimmed == IF config.trimTrailingWhitespace THEN TrimTrailing(line) ELSE line
    IN  IF ~config.preserveIndentation
        THEN OrDefault(config.defaultIndentation, <<SP, SP, SP, SP>>) \o trimmed
        ELSE trimmed

\* the map callback of normalizeContent
ProcessLine(line, config) ==
    LET trimmed == IF config.trimTrailingWhitespace THEN TrimTrailing(line) ELSE line
    IN  IF ~config.preserveIndentation
        THEN ReplaceIndentation(trimmed,
                 OrDefault(config.defaultIndentation, <<SP, SP, SP, SP>>))
        ELSE trimmed

\* normalizeContent(content, config).normalized
normalizeContent(content, config) ==
    LET lines == SplitLineEndings(content)
        processedLines == [k \in 1..Len(lines) |-> ProcessLine(lines[k], config)]
    IN  Join(processedLines,
             IF config.preserveLineEndings
             THEN DetectLineEndings(content)
             ELSE OrDefault(config.defaultLineEnding, <<NL>>))

\* the UTF-8 byte of a character of the texts that are hashed on their own
CharCode(c) ==
    CASE c = TAB -> 9 [] c = NL -> 10 [] c = CR -> 13 [] c = SP -> 32 [] c = "a" -> 97

Base64Alphabet ==
    << "A", "B", "C", "D", "E", "F", "G", "H", "I", "J", "K", "L", "M", "N", "O", "P",
       "Q", "R", "S", "T", "U", "V", "W", "X", "Y", "Z", "a", "b", "c", "d", "e", "f",
       "g", "h", "i", "j", "k", "l", "m", "n", "o", "p", "q", "r", "s", "t", "u", "v",
       "w", "x", "y", "z", "0", "1", "2", "3", "4", "5", "6", "7", "8", "9", "+", "/" >>

\* the base64 digit of a six-bit value
Base64Digit(v) == Base64Alphabet[v + 1]

\* buffer.toString('base64'): three bytes give four digits, and the last
\* one or two bytes give two or three digits and "=" padding
RECURSIVE Base64(_)
Base64(bytes) ==
    IF Len(bytes) = 0 THEN << >>
    ELSE IF Len(bytes) = 1
    THEN << Base64Digit(bytes[1] \div 4), Base64Digit((bytes[1] % 4) * 16), "=", "=" >>
    ELSE IF Len(bytes) = 2
    THEN << Base64Digit(bytes[1] \div 4),
            Base64Digit((bytes[1] % 4) * 16 + bytes[2] \div 16),
            Base64Digit((bytes[2] % 16) * 4), "=" >>
    ELSE << Base64Digit(bytes[1] \div 4),
            Base64Digit((bytes[1] % 4) * 16 + bytes[2] \div 16),
            Base64Digit((bytes[2] % 16) * 4 + bytes[3] \div 64),
            Base64Digit(bytes[3] % 64) >> \o Base64(Slice(bytes, 4, Len(bytes)))

\* normalizeContent(content, config).hash
ContentHash(normalized) == Base64([k \in 1..Len(normalized) |-> CharCode(normalized[k])])

\* a conflict message: `Line ${line}: ${text}` or `${text} ${line}`
Conflict(line, text) == [line |-> line, text |-> text]

\* ------------------------------------------------------------------------
\* Tokens and similarity
\* ------------------------------------------------------------------------

\* the character class \w
IsWord(c) ==
    c \in { "a", "b", "c", "d", "e", "f", "g", "h", "i", "j", "k", "l", "m",
            "n", "o", "p", "q", "r", "s", "t", "u", "v", "w", "x", "y", "z",
            "A", "B", "C", "D", "E", "F", "G", "H", "I", "J", "K", "L", "M",
            "N", "O", "P", "Q", "R", "S", "T", "U", "V", "W", "X", "Y", "Z",
            "0", "1", "2", "3", "4", "5", "6", "7", "8", "9", "_" }

\* which alternative of /\s+|\w+|[^\s\w]+/ a character belongs to
CharClass(c) == IF IsSpace(c) THEN "space" ELSE IF IsWord(c) THEN "word" ELSE "symbol"

\* the length of the maximal run of characters of the class of s[1]
RECURSIVE RunLength(_, _)
RunLength(s, class) ==
    IF Len(s) > 0 /\ CharClass(s[1]) = class
    THEN 1 + RunLength(Tail(s), class)
    ELSE 0

\* content.match(/\s+|\w+|[^\s\w]+/g) || []
RECURSIVE tokenize(_)
tokenize(content) ==
    IF Len(content) = 0 THEN << >>
    ELSE LET n == RunLength(content, CharClass(content[1]))
         IN  <<Slice(content, 1, n)>> \o tokenize(Slice(content, n + 1, Len(content)))

Min3(a, b, c) == Min(a, Min(b, c))

\* matrix[tokens1.length][tokens2.length] of calculateSimilarity
EditDistance(tokens1, tokens2) ==
    LET matrix[i \in 0..Len(tokens1), j \in 0..Len(tokens2)] ==
            IF i = 0 THEN j
            ELSE IF j = 0 THEN i
            ELSE IF tokens1[i] = tokens2[j] THEN matrix[i - 1, j - 1]
            ELSE Min3(matrix[i - 1, j - 1] + 1, matrix[i, j - 1] + 1, matrix[i - 1, j] + 1)
    IN  matrix[Len(tokens1), Len(tokens2)]

\* calculateSimilarity(tokens1, tokens2): 1 - distance / maxLength as the
\* fraction num / den, or NaN, which 0 / 0 gives
calculateSimilarity(tokens1, tokens2) ==
    LET maxLength == Max(Len(tokens1), Len(tokens2))
        distance == EditDistance(tokens1, tokens2)
    IN  IF maxLength = 0 /\ distance = 0
        THEN [isNaN |-> TRUE, num |-> 0, den |-> 0]
        ELSE [isNaN |-> FALSE, num |-> maxLength - distance, den |-> maxLength]

\* calculateSimilarity(tokens1, tokens2) >= num / den; the score is
\* 1 - distance / maxLength, which is NaN (and so below every threshold)
\* when both sequences are empty
SimilarityAtLeast(tokens1, tokens2, num, den) ==
    LET maxLength == Max(Len(tokens1), Len(tokens2))
    IN  /\ maxLength > 0
        /\ den * (maxLength - EditDistance(tokens1, tokens2)) >= num * maxLength

\* ------------------------------------------------------------------------
\* Three-way merge
\* ------------------------------------------------------------------------

\* the LCS matrix of findLCS
LCSMatrix(tokens1, tokens2) ==
    LET matrix[i \in 0..Len(tokens1), j \in 0..Len(tokens2)] ==
            IF i = 0 \/ j = 0 THEN 0
            ELSE IF tokens1[i] = tokens2[j] THEN matrix[i - 1, j - 1] + 1
            ELSE Max(matrix[i - 1, j], matrix[i, j - 1])
    IN  matrix

\* the reconstruction loop of findLCS, from (i, j) down
RECURSIVE ReconstructLCS(_, _, _, _, _)
ReconstructLCS(matrix, tokens1, tokens2, i, j) ==
    IF i > 0 /\ j > 0
    THEN IF tokens1[i] = tokens2[j]
         THEN Append(ReconstructLCS(matrix, tokens1, tokens2, i - 1, j - 1), tokens1[i])
         ELSE IF matrix[i - 1, j] > matrix[i, j - 1]
              THEN ReconstructLCS(matrix, tokens1, tokens2, i - 1, j)
              ELSE ReconstructLCS(matrix, tokens1, tokens2, i, j - 1)
    ELSE << >>

findLCS(tokens1, tokens2) ==
    ReconstructLCS(LCSMatrix(tokens1, tokens2), tokens1, tokens2, Len(tokens1), Len(tokens2))

findCommonAncestor(content1, content2) ==
    Join(findLCS(tokenize(content1), tokenize(content2)), << >>)

\* tokens[at - 1]: undefined past the end; no token is the empty string, and
\* join('') renders undefined as the empty string
TokenAt(tokens, at) == IF at <= Len(tokens) THEN tokens[at] ELSE << >>

\* an iteration that keeps current's token where only target changed
MergeStepKeepingCurrent(acc, baseTokens, currentTokens, targetTokens, at) ==
    LET b == TokenAt(baseTokens, at)
        c == TokenAt(currentTokens, at)
        t == TokenAt(targetTokens, at)
    IN  IF c = t \/ c = b \/ t = b THEN [acc EXCEPT !.merged = Append(@, c)]
        ELSE [acc EXCEPT !.conflicts = Append(@, Conflict(Len(acc.merged), "Conflict at position")),
                         !.merged = Append(@, IF Len(c) > 0 THEN c ELSE t)]

\* one iteration of the loop of performThreeWayMerge at position at (i, j
\* and k advance together), on the running [merged, conflicts]
MergeStep(acc, baseTokens, currentTokens, targetTokens, at) ==
    LET b == TokenAt(baseTokens, at)
        c == TokenAt(currentTokens, at)
        t == TokenAt(targetTokens, at)
    IN  IF c = t THEN [acc EXCEPT !.merged = Append(@, c)]
        ELSE IF c = b THEN [acc EXCEPT !.merged = Append(@, t)]
        ELSE IF t = b THEN [acc EXCEPT !.merged = Append(@, c)]
        ELSE [acc EXCEPT !.conflicts = Append(@, Conflict(Len(acc.merged), "Conflict at position")),
                         !.merged = Append(@, IF Len(c) > 0 THEN c ELSE t)]

RECURSIVE MergeLoop(_, _, _, _, _)
MergeLoop(acc, baseTokens, currentTokens, targetTokens, at) ==
    IF at <= Len(baseTokens) \/ at <= Len(currentTokens) \/ at <= Len(targetTokens)
    THEN MergeLoop(MergeStep(acc, baseTokens, currentTokens, targetTokens, at),
                   baseTokens, currentTokens, targetTokens, at + 1)
    ELSE acc

\* performThreeWayMerge(base, current, target): [normalized, conflicts]
performThreeWayMerge(base, current, target) ==
    LET acc == MergeLoop([merged |-> << >>, conflicts |-> << >>],
                         tokenize(base), tokenize(current), tokenize(target), 1)
    IN  [normalized |-> Join(acc.merged, << >>), conflicts |-> acc.conflicts]

\* ------------------------------------------------------------------------
\* Validation
\* ------------------------------------------------------------------------

\* hasValidStructure: the longest line accepted
MaxLineLength == 10000

TODO == <<"T", "O", "D", "O">>

IMPORTANT == <<"I", "M", "P", "O", "R", "T", "A", "N", "T">>

\* the null character '\0'
NUL == "\\0"

isValidContent(content) == Len(content) > 0 /\ ~Includes(content, <<NUL>>)

hasValidStructure(content) ==
    LET lines == SplitOn(content, NL)
    IN  \A k \in 1..Len(lines) : Len(lines[k]) <= MaxLineLength

\* modified.length <= original.length * 2, unless the original line is protected
validateLineChange(original, modified) ==
    IF Includes(original, TODO) \/ Includes(original, IMPORTANT)
    THEN FALSE
    ELSE Len(modified) <= Len(original) * 2

\* a deletion check that knows one marker only
validateLineDeletionOfImportant(line) == ~Includes(line, IMPORTANT)

validateLineDeletion(line) == ~Includes(line, IMPORTANT) /\ ~Includes(line, TODO)

\* a replacement check that asks for the full length of the original
verifyCompleteReplacementAtFullLength(original, modified) ==
    hasValidStructure(modified) /\ Len(modified) >= Len(original)

\* modified.length >= original.length * 0.5
verifyCompleteReplacement(original, modified) ==
    hasValidStructure(modified) /\ 2 * Len(modified) >= Len(original)

verifyLineChanges(original, modified) ==
    LET originalLines == SplitOn(original, NL)
        modifiedLines == SplitOn(modified, NL)
    IN  Abs(Len(originalLines) - Len(modifiedLines)) <=
            Cardinality({k \in 1..Len(originalLines) : IsEmptyLine(originalLines[k])})

\* braces.filter(b => b === '{').length === braces.filter(b => b === '}').length
hasValidBlockStructure(content) ==
    Cardinality({k \in 1..Len(content) : content[k] = "{"}) =
        Cardinality({k \in 1..Len(content) : content[k] = "}"})

verifyBlockChanges(original, modified) ==
    /\ hasValidBlockStructure(modified)
    /\ SimilarityAtLeast(tokenize(original), tokenize(modified), 3, 10)

\* a final check of a diff with the threshold of the matcher, 0.8
verifyDiffChangesAtMatcherThreshold(original, modified) ==
    /\ isValidContent(modified)
    /\ hasValidStructure(modified)
    /\ SimilarityAtLeast(tokenize(original), tokenize(modified), 8, 10)

verifyDiffChanges(original, modified) ==
    /\ isValidContent(modified)
    /\ hasValidStructure(modified)
    /\ SimilarityAtLeast(tokenize(original), tokenize(modified), 5, 10)

\* ------------------------------------------------------------------------
\* Strategies
\* ------------------------------------------------------------------------


\* the result of a strategy
StrategyResult(content, changes, conflicts) ==
    [content |-> content, changes |-> changes, conflicts |-> conflicts]

\* lines.splice(at - 1, 1)
RemoveAt(lines, at) == Slice(lines, 1, at - 1) \o Slice(lines, at + 1, Len(lines))

\* an iteration that takes lineNum for an index from 0 and replaces the line
\* after the numbered one
LineNumberStepFromZero(acc, lineNum, operation) ==
    IF lineNum >= 0 /\ lineNum < Len(acc.lines) /\ operation.hasReplace
    THEN [acc EXCEPT !.lines = [acc.lines EXCEPT ![lineNum + 1] = operation.replace],
                     !.changes = @ + 1]
    ELSE acc

\* one iteration of the loop over operation.lineNumbers, on the running
\* [lines, changes, conflicts]
LineNumberStep(acc, lineNum, operation) ==
    IF lineNum > 0 /\ lineNum <= Len(acc.lines)
    THEN LET originalLine == acc.lines[lineNum]
         IN  IF operation.hasReplace
             THEN IF validateLineChange(originalLine, operation.replace)
                  THEN [acc EXCEPT !.lines = [acc.lines EXCEPT ![lineNum] = operation.replace],
                                   !.changes = @ + 1]
                  ELSE [acc EXCEPT !.conflicts =
                            Append(@, Conflict(lineNum, "Invalid change detected"))]
             ELSE IF validateLineDeletion(originalLine)
                  THEN [acc EXCEPT !.lines = RemoveAt(acc.lines, lineNum),
                                   !.changes = @ + 1]
                  ELSE [acc EXCEPT !.conflicts =
                            Append(@, Conflict(lineNum, "Cannot delete protected line"))]
    ELSE acc

\* for (const lineNum of operation.lineNumbers) { ... }
RECURSIVE LineNumberLoop(_, _, _)
LineNumberLoop(acc, lineNumbers, operation) ==
    IF Len(lineNumbers) = 0 THEN acc
    ELSE LineNumberLoop(LineNumberStep(acc, Head(lineNumbers), operation),
                        Tail(lineNumbers), operation)

\* ------------------------------------------------------------------------
\* Pattern synthesis (line strategy)
\* ------------------------------------------------------------------------

BACKSLASH == "\\"

\* the characters of the class [.*+?^${}()|[\]\\]
IsRegexSpecial(c) ==
    c \in {".", "*", "+", "?", "^", "$", "{", "}", "(", ")", "|", "[", "]", BACKSLASH}

\* token.replace(/[.*+?^${}()|[\]\\]/g, '\\$&')
RECURSIVE EscapeRegex(_)
EscapeRegex(token) ==
    IF Len(token) = 0 THEN << >>
    ELSE (IF IsRegexSpecial(token[1]) THEN <<BACKSLASH, token[1]>> ELSE <<token[1]>>)
             \o EscapeRegex(Tail(token))

\* /^\s+$/.test(token)
IsAllSpace(token) == Len(token) > 0 /\ \A k \in 1..Len(token) : IsSpace(token[k])

\* /\s/.test(token)
HasSpace(token) == \E k \in 1..Len(token) : IsSpace(token[k])

\* escaped.replace(/\s+/g, '\\s+')
RECURSIVE ReplaceSpaceRuns(_)
ReplaceSpaceRuns(escaped) ==
    IF Len(escaped) = 0 THEN << >>
    ELSE IF IsSpace(escaped[1])
         THEN <<BACKSLASH, "s", "+">> \o
              ReplaceSpaceRuns(Slice(escaped, RunLength(escaped, "space") + 1, Len(escaped)))
         ELSE <<escaped[1]>> \o ReplaceSpaceRuns(Tail(escaped))

\* the map callback of createTokenPattern
TokenPattern(token, config) ==
    IF ~config.preserveIndentation /\ IsAllSpace(token) THEN <<BACKSLASH, "s", "*">>
    ELSE IF config.normalizeWhitespace /\ HasSpace(token) THEN ReplaceSpaceRuns(EscapeRegex(token))
    ELSE EscapeRegex(token)

\* RegExp.prototype.source of new RegExp(flexPattern): a slash and the line
\* terminators are written escaped
RECURSIVE RegExpSource(_)
RegExpSource(flexPattern) ==
    IF Len(flexPattern) = 0 THEN << >>
    ELSE IF flexPattern[1] = BACKSLASH /\ Len(flexPattern) > 1
         THEN <<BACKSLASH, flexPattern[2]>> \o RegExpSource(Slice(flexPattern, 3, Len(flexPattern)))
         ELSE (CASE flexPattern[1] = "/" -> <<BACKSLASH, "/">>
                 [] flexPattern[1] = NL -> <<BACKSLASH, "n">>
                 [] flexPattern[1] = CR -> <<BACKSLASH, "r">>
                 [] OTHER -> <<flexPattern[1]>>) \o RegExpSource(Tail(flexPattern))

\* createTokenPattern(pattern, config).source
createTokenPattern(pattern, config) ==
    LET tokens == tokenize(pattern)
    IN  RegExpSource(Join([k \in 1..Len(tokens) |-> TokenPattern(tokens[k], config)], << >>))

\* matchesWithTokens(content, pattern), pattern given by its source
matchesWithTokens(content, patternStr) ==
    SimilarityAtLeast(tokenize(content), tokenize(patternStr), 8, 10)

\* one iteration of the loop over the lines of the pattern branch of
\* handleLineOperation, at index i (0-based, as in the code), on the running
\* [lines, changes, conflicts]: what it leaves and the index of the next one
PatternStep(acc, i, pattern, operation, config) ==
    LET line == acc.lines[i + 1]
        normalizedLine == normalizeContent(line, config)
    IN  IF matchesWithTokens(normalizedLine, pattern)
        THEN IF operation.hasReplace
             THEN IF validateLineChange(line, operation.replace)
                  THEN [acc |-> [acc EXCEPT !.lines = [acc.lines EXCEPT ![i + 1] = operation.replace],
                                            !.changes = @ + 1],
                        i |-> i + 1]
                  ELSE [acc |-> [acc EXCEPT !.conflicts =
                                     Append(@, Conflict(i + 1, "Invalid change detected"))],
                        i |-> i + 1]
             ELSE IF validateLineDeletion(line)
                  THEN [acc |-> [acc EXCEPT !.lines = RemoveAt(acc.lines, i + 1),
                                            !.changes = @ + 1],
                        i |-> i]
                  ELSE [acc |-> [acc EXCEPT !.conflicts =
                                     Append(@, Conflict(i + 1, "Cannot delete protected line"))],
                        i |-> i + 1]
        ELSE [acc |-> acc, i |-> i + 1]

\* for (let i = 0; i < lines.length; i++) { ... }, from index i
RECURSIVE PatternLoop(_, _, _, _, _)
PatternLoop(acc, i, pattern, operation, config) ==
    IF i < Len(acc.lines)
    THEN LET next == PatternStep(acc, i, pattern, operation, config)
         IN  PatternLoop(next.acc, next.i, pattern, operation, config)
    ELSE acc

handleLineOperation(content, operation, config) ==
    LET start == [lines |-> SplitOn(content, NL), changes |-> 0, conflicts |-> << >>]
        end == IF operation.hasLineNumbers
               THEN LineNumberLoop(start, operation.lineNumbers, operation)
               ELSE IF Len(operation.search) > 0
                    THEN PatternLoop(start, 0, createTokenPattern(operation.search, config),
                                     operation, config)
                    ELSE start
    IN  StrategyResult(Join(end.lines, <<NL>>), end.changes, end.conflicts)

\* ------------------------------------------------------------------------
\* Block strategy
\* ------------------------------------------------------------------------

\* this.CHUNK_SIZE
CHUNK_SIZE == 100

\* /\r?\n/.test(token)
HasLineFeed(token) == \E k \in 1..Len(token) : token[k] = NL

\* the map callback of createBlockTokenPattern
BlockTokenPattern(token, config) ==
    IF ~config.preserveLineEndings /\ HasLineFeed(token)
    THEN <<BACKSLASH, "r", "?", BACKSLASH, "n">>
    ELSE TokenPattern(token, config)

\* createBlockTokenPattern(pattern, config): the text given to new RegExp
createBlockTokenPattern(pattern, config) ==
    LET tokens == tokenize(pattern)
    IN  Join([k \in 1..Len(tokens) |-> BlockTokenPattern(tokens[k], config)], << >>)

\* the characters an atom of a synthesized pattern accepts: \s, \r, \n, an
\* escaped character, or a character standing for itself
AtomChars(flexPattern) ==
    IF flexPattern[1] = BACKSLASH /\ Len(flexPattern) > 1
    THEN CASE flexPattern[2] = "s" -> {SP, TAB, NL, CR}
           [] flexPattern[2] = "r" -> {CR}
           [] flexPattern[2] = "n" -> {NL}
           [] OTHER -> {flexPattern[2]}
    ELSE {flexPattern[1]}

AtomWidth(flexPattern) == IF flexPattern[1] = BACKSLASH /\ Len(flexPattern) > 1 THEN 2 ELSE 1

\* new RegExp(flexPattern) as the sequence of its atoms, each with the
\* quantifier that follows it (+, * or ?; none is exactly once)
RECURSIVE CompileRegExp(_)
CompileRegExp(flexPattern) ==
    IF Len(flexPattern) = 0 THEN << >>
    ELSE LET w == AtomWidth(flexPattern)
             q == IF Len(flexPattern) > w /\ flexPattern[w + 1] \in {"+", "*", "?"}
                  THEN flexPattern[w + 1] ELSE "1"
             rest == Slice(flexPattern, w + (IF q = "1" THEN 1 ELSE 2), Len(flexPattern))
         IN  <<[chars |-> AtomChars(flexPattern),
                min |-> IF q \in {"*", "?"} THEN 0 ELSE 1,
                many |-> q \in {"+", "*"}]>> \o CompileRegExp(rest)

\* how many characters of s from position at on are in chars
RECURSIVE RunOf(_, _, _)
RunOf(s, at, chars) ==
    IF at <= Len(s) /\ s[at] \in chars THEN 1 + RunOf(s, at + 1, chars) ELSE 0

\* the match of the atoms on s that starts at position at: the position after
\* its last character, or 0 when there is none.  A quantifier is greedy: it
\* takes the most characters that let the rest of the pattern match.
RECURSIVE MatchFrom(_, _, _)
MatchFrom(atoms, s, at) ==
    IF Len(atoms) = 0 THEN at
    ELSE LET a == Head(atoms)
             run == IF a.many THEN RunOf(s, at, a.chars) ELSE Min(1, RunOf(s, at, a.chars))
             taken == {k \in a.min..run : MatchFrom(Tail(atoms), s, at + k) # 0}
         IN  IF taken = {} THEN 0
             ELSE MatchFrom(Tail(atoms), s, at + (CHOOSE k \in taken : \A j \in taken : j <= k))

\* s.replace(pattern, replacement) for a pattern with the flag g, from
\* position at on; an empty match is followed by one character of s.  (The
\* replacement texts of the model hold no $, so none of $&, $1, $$ occurs.)
RECURSIVE ReplaceFrom(_, _, _, _)
ReplaceFrom(s, atoms, replacement, at) ==
    IF at > Len(s) + 1 THEN << >>
    ELSE LET end == MatchFrom(atoms, s, at)
             next == IF at <= Len(s) THEN <<s[at]>> ELSE << >>
         IN  IF end = 0 THEN next \o ReplaceFrom(s, atoms, replacement, at + 1)
             ELSE IF end = at THEN replacement \o next \o ReplaceFrom(s, atoms, replacement, at + 1)
             ELSE replacement \o ReplaceFrom(s, atoms, replacement, end)

\* chunk.replace(pattern, replaceNormalized)
ReplacePattern(chunk, flexPattern, replacement) ==
    ReplaceFrom(chunk, CompileRegExp(flexPattern), replacement, 1)

RECURSIVE splitIntoChunks(_, _)
splitIntoChunks(content, size) ==
    IF Len(content) = 0 THEN << >>
    ELSE <<Slice(content, 1, Min(size, Len(content)))>>
             \o splitIntoChunks(Slice(content, size + 1, Len(content)), size)

\* modified.length within [0.5, 2] times original.length, braces balanced
validateBlockChange(original, modified) ==
    /\ hasValidBlockStructure(modified)
    /\ 2 * Len(modified) >= Len(original)
    /\ Len(modified) <= 2 * Len(original)

\* one iteration of the loop over the chunks, on the running
\* [newContent, changes, conflicts]
BlockStep(acc, chunk, flexPattern, replaceNormalized) ==
    IF matchesWithTokens(chunk, RegExpSource(flexPattern))
    THEN IF validateBlockChange(chunk, replaceNormalized)
         THEN [acc EXCEPT !.newContent = @ \o ReplacePattern(chunk, flexPattern, replaceNormalized),
                          !.changes = @ + 1]
         ELSE [acc EXCEPT !.conflicts = Append(@, Conflict(0, "Block change validation failed")),
                          !.newContent = @ \o chunk]
    ELSE [acc EXCEPT !.newContent = @ \o chunk]

\* for (const chunk of chunks) { ... }
RECURSIVE BlockLoop(_, _, _, _)
BlockLoop(acc, chunks, flexPattern, replaceNormalized) ==
    IF Len(chunks) = 0 THEN acc
    ELSE BlockLoop(BlockStep(acc, Head(chunks), flexPattern, replaceNormalized),
                   Tail(chunks), flexPattern, replaceNormalized)

handleBlockOperation(content, operation, config) ==
    LET searchNormalized == normalizeContent(operation.search, config)
        replaceNormalized == normalizeContent(operation.replace, config)
        end == BlockLoop([newContent |-> << >>, changes |-> 0, conflicts |-> << >>],
                         splitIntoChunks(content, CHUNK_SIZE),
                         createBlockTokenPattern(searchNormalized, config), replaceNormalized)
    IN  StrategyResult(end.newContent, end.changes, end.conflicts)

\* ------------------------------------------------------------------------
\* Diff strategy
\* ------------------------------------------------------------------------

\* The text of operation.diff is held as what diff.parsePatch makes of it: a
\* sequence of patches, each a sequence of hunks, each an old start line and
\* lines with an operation (' ' context, '-' removed, '+' added) and a text;
\* wellFormed is FALSE for a text that parsePatch rejects.  The contents of
\* the model end their lines with "\n" only.

HunkLine(op, text) == [op |-> op, text |-> text]

\* the texts of the lines of a hunk whose operation is among ops
HunkTexts(hunk, ops) ==
    LET Among(l) == l.op \in ops
        kept == SelectSeq(hunk.lines, Among)
    IN  [k \in 1..Len(kept) |-> kept[k].text]

\* hunkFits(hunk, toPos) of diff.applyPatch, toPos counted from 0: every
\* context and removed line equals the line of the content at its place
HunkFits(lines, hunk, toPos) ==
    LET old == HunkTexts(hunk, {" ", "-"})
    IN  /\ toPos >= 0
        /\ \A j \in 1..Len(old) : toPos + j <= Len(lines) /\ lines[toPos + j] = old[j]

\* the place diff.applyPatch finds for a hunk: toPos, or else the place
\* nearest to it between minLine and maxLine where the hunk fits (the later
\* of two equally near); -1 when the hunk fits nowhere
FitPosition(lines, hunk, toPos, minLine, maxLine) ==
    LET fits == {pos \in {toPos} \cup (minLine..maxLine) : HunkFits(lines, hunk, pos)}
    IN  IF fits = {} THEN -1
        ELSE CHOOSE pos \in fits :
                 \A q \in fits : \/ Abs(pos - toPos) < Abs(q - toPos)
                                 \/ Abs(pos - toPos) = Abs(q - toPos) /\ pos >= q

\* the first loop of diff.applyPatch: the places of the hunks, each searched
\* after the end of the one before
RECURSIVE FitHunks(_, _, _, _)
FitHunks(lines, hunks, offset, minLine) ==
    IF Len(hunks) = 0 THEN [ok |-> TRUE, positions |-> << >>]
    ELSE LET hunk == Head(hunks)
             oldLines == Len(HunkTexts(hunk, {" ", "-"}))
             pos == FitPosition(lines, hunk, offset + hunk.oldStart - 1,
                                minLine, Len(lines) - oldLines)
             rest == FitHunks(lines, Tail(hunks), pos - (hunk.oldStart - 1),
                              pos + 1 + oldLines)
         IN  IF pos = -1 \/ ~rest.ok THEN [ok |-> FALSE, positions |-> << >>]
             ELSE [ok |-> TRUE, positions |-> <<pos>> \o rest.positions]

\* the second loop of diff.applyPatch: the old lines of every hunk give way
\* to its new lines, the last hunk first
RECURSIVE ApplyHunks(_, _, _)
ApplyHunks(lines, hunks, positions) ==
    IF Len(hunks) = 0 THEN lines
    ELSE LET n == Len(hunks)
             oldLines == Len(HunkTexts(hunks[n], {" ", "-"}))
         IN  ApplyHunks(Slice(lines, 1, positions[n])
                            \o HunkTexts(hunks[n], {" ", "+"})
                            \o Slice(lines, positions[n] + oldLines + 1, Len(lines)),
                        Slice(hunks, 1, n - 1), Slice(positions, 1, n - 1))

\* diff.applyPatch(content, patch): the patched content, or false
ApplyPatch(content, patch) ==
    LET lines == SplitOn(content, NL)
        fit == FitHunks(lines, patch.hunks, 0, 0)
    IN  IF fit.ok
        THEN [ok |-> TRUE, content |-> Join(ApplyHunks(lines, patch.hunks, fit.positions), <<NL>>)]
        ELSE [ok |-> FALSE, content |-> content]

\* diff.parsePatch(operation.diff) throws on a text it cannot parse
ParsePatchThrows(diff) == \E k \in 1..Len(diff) : ~diff[k].wellFormed

validateDiffChange(original, modified) ==
    /\ isValidContent(modified)
    /\ hasValidStructure(modified)
    /\ SimilarityAtLeast(tokenize(original), tokenize(modified), 3, 10)

\* an iteration that counts every patch it tried as a change
DiffStepCountingAttempts(acc, patch) ==
    LET patchResult == ApplyPatch(acc.newContent, patch)
    IN  IF ~patchResult.ok
        THEN [acc EXCEPT !.conflicts = Append(@, Conflict(0, "Failed to apply patch")),
                         !.changes = @ + 1]
        ELSE [acc EXCEPT !.newContent = patchResult.content, !.changes = @ + 1]

\* one iteration of the loop over the patches, on the running
\* [newContent, changes, conflicts]
DiffStep(acc, patch) ==
    LET patchResult == ApplyPatch(acc.newContent, patch)
    IN  IF ~patchResult.ok
        THEN [acc EXCEPT !.conflicts = Append(@, Conflict(0, "Failed to apply patch"))]
        ELSE IF validateDiffChange(acc.newContent, patchResult.content)
             THEN [acc EXCEPT !.newContent = patchResult.content, !.changes = @ + 1]
             ELSE [acc EXCEPT !.conflicts = Append(@, Conflict(0, "Diff change validation failed"))]

\* for (const patch of patches) { ... }
RECURSIVE DiffLoop(_, _)
DiffLoop(acc, patches) ==
    IF Len(patches) = 0 THEN acc
    ELSE DiffLoop(DiffStep(acc, Head(patches)), Tail(patches))

\* handleDiffOperation: threw is TRUE for `Failed to apply diff patch: ...`
handleDiffOperation(content, operation) ==
    LET end == DiffLoop([newContent |-> content, changes |-> 0, conflicts |-> << >>],
                        operation.diff)
    IN  IF ParsePatchThrows(operation.diff)
        THEN [threw |-> TRUE, content |-> content, changes |-> 0, conflicts |-> << >>]
        ELSE [threw |-> FALSE, content |-> end.newContent, changes |-> end.changes,
              conflicts |-> end.conflicts]

\* handleCompleteReplacement: [normalized, conflicts]
handleCompleteReplacement(original, replacement, config, strategy) ==
    LET normalized == normalizeContent(replacement, config)
    IN  IF strategy \in {"none", "overwrite"}
        THEN [normalized |-> normalized, conflicts |-> << >>]
        ELSE performThreeWayMerge(findCommonAncestor(original, normalized), original, normalized)

\* a final verification without the test of isValidContent
verifyChangesOfTypeOnly(original, modified, operation) ==
    CASE operation.type = "complete" -> verifyCompleteReplacement(original, modified)
      [] operation.type = "line" -> verifyLineChanges(original, modified)
      [] operation.type = "block" -> verifyBlockChanges(original, modified)
      [] operation.type = "diff" -> verifyDiffChanges(original, modified)
      [] OTHER -> FALSE

\* verifyChanges(original, modified, operation); block and diff operations
\* are verified by verifyBlockChanges and verifyDiffChanges
verifyChanges(original, modified, operation) ==
    /\ isValidContent(modified)
    /\ CASE operation.type = "complete" -> verifyCompleteReplacement(original, modified)
         [] operation.type = "line" -> verifyLineChanges(original, modified)
         [] operation.type = "block" -> verifyBlockChanges(original, modified)
         [] operation.type = "diff" -> verifyDiffChanges(original, modified)
         [] OTHER -> FALSE

\* ------------------------------------------------------------------------
\* Errors
\* ------------------------------------------------------------------------

\* an Error: its message is the chain of the messages joined by ": ", and the
\* conflicts that `Unresolved conflicts: ${conflicts.join(', ')}` lists
Error(message, conflicts) == [message |-> message, conflicts |-> conflicts]

\* the message of the error of the fs module: the path does not exist, or
\* the call failed for another reason
FsCause(exists) == IF exists THEN "EIO" ELSE "ENOENT"

\* the FileOperationError a FileService method throws around its cause
FileOperationError(what, cause) == Error(<<what>> \o cause, << >>)

\* ------------------------------------------------------------------------
\* File system
\* ------------------------------------------------------------------------

FilePath == "f"

\* `${filePath}.bak`
BackupPathOf(filePath) == filePath \o ".bak"

Exists(files, path) == path \in DOMAIN files

\* the effect of fs.copyFile(source, destination, 0)
CopyFileEffect(files, source, destination) ==
    [x \in DOMAIN files \cup {destination} |->
        IF x = destination THEN files[source] ELSE files[x]]

\* the effect of fs.writeFile(path, content)
WriteFileEffect(files, path, content) ==
    [x \in DOMAIN files \cup {path} |-> IF x = path THEN content ELSE files[x]]

\* the effect of fs.unlink(path)
DeleteFileEffect(files, path) == [x \in DOMAIN files \ {path} |-> files[x]]

\* the content of a path, as a sequence of at most one element
FileAt(files, path) == IF Exists(files, path) THEN <<files[path]>> ELSE << >>

\* ------------------------------------------------------------------------
\* Inputs
\* ------------------------------------------------------------------------

\* the contents the target file starts with
InitialContents ==
    { <<"a", NL, "b">>,
      <<"a", NL, NL, "b">>,
      <<"T", "O", "D", "O", NL, "b">>,
      <<"a", SP, NL, "b">>,
      <<"a", SP, "b">> }

\* a PatchOperation; an absent optional string is the empty string where the
\* code tests it for truthiness, replace and lineNumbers carry a presence flag
Operation(type, search, hasReplace, replace, hasLineNumbers, lineNumbers, content, diff, createBackup, mergeStrategy, conflictResolution) ==
    [ type |-> type, filePath |-> FilePath,
      search |-> search, hasReplace |-> hasReplace, replace |-> replace,
      hasLineNumbers |-> hasLineNumbers, lineNumbers |-> lineNumbers,
      content |-> content, diff |-> diff, createBackup |-> createBackup,
      whitespaceConfig |-> DEFAULT_WHITESPACE_CONFIG,
      mergeStrategy |-> mergeStrategy, conflictResolution |-> conflictResolution ]

Replacements == { <<"c">>, <<"c", "c", "c">> }

LineNumberLists == { << >>, <<1>>, <<2>>, <<1, 2>>, <<3>> }

\* line operations: by line numbers (replace or delete), by search text
\* (replace or delete), and with neither
LineOperations(createBackup, conflictResolution) ==
    { Operation("line", << >>, TRUE, replace, TRUE, lineNumbers,
                << >>, << >>, createBackup, "none", conflictResolution) :
        replace \in Replacements, lineNumbers \in LineNumberLists }
    \cup
    { Operation("line", << >>, FALSE, << >>, TRUE, lineNumbers,
                << >>, << >>, createBackup, "none", conflictResolution) :
        lineNumbers \in LineNumberLists }
    \cup
    { Operation("line", search, hasReplace, <<"c">>, FALSE, << >>,
                << >>, << >>, createBackup, "none", conflictResolution) :
        search \in {<< >>, <<"b">>, <<"z">>, <<"a", SP, "b">>}, hasReplace \in BOOLEAN }

\* complete operations: without content, with a content shorter than half of
\* every initial content, with contents of the length of "a\nb", with one
\* that normalization changes and with one that holds a null character
CompleteOperations(createBackup, conflictResolution) ==
    { Operation("complete", << >>, FALSE, << >>, FALSE, << >>,
                content, << >>, createBackup, mergeStrategy, conflictResolution) :
        content \in { << >>, <<"c">>, <<"a", NL, "c">>, <<"b", NL, "c">>,
                      <<"a", NL, "c", SP>>, <<"a", NUL, "c">> },
        mergeStrategy \in {"none", "overwrite", "merge"} }

\* DEFAULT_WHITESPACE_CONFIG with whitespace taken literally by the patterns
LiteralWhitespaceConfig == [DEFAULT_WHITESPACE_CONFIG EXCEPT !.normalizeWhitespace = FALSE]

\* block operations: a search text no content resembles, and under
\* LiteralWhitespaceConfig one that is the content "a b", with a replacement
\* that passes validateBlockChange and one that does not
BlockOperations(createBackup, conflictResolution) ==
    { Operation("block", <<"z">>, TRUE, <<"c">>, FALSE, << >>,
                << >>, << >>, createBackup, "none", conflictResolution) }
    \cup
    { [Operation("block", <<"a", SP, "b">>, TRUE, replace, FALSE, << >>,
                 << >>, << >>, createBackup, "none", conflictResolution)
          EXCEPT !.whitespaceConfig = LiteralWhitespaceConfig] :
        replace \in {<<"c", SP, "d">>, <<"c", SP, "{">>} }

\* how many lines two sequences of lines have in common at their start
RECURSIVE CommonPrefix(_, _)
CommonPrefix(s, t) ==
    IF Len(s) > 0 /\ Len(t) > 0 /\ Head(s) = Head(t)
    THEN 1 + CommonPrefix(Tail(s), Tail(t))
    ELSE 0

Reverse(s) == [k \in 1..Len(s) |-> s[Len(s) + 1 - k]]

\* a unified diff generated from content A to content B: no hunk when they
\* are equal, else one hunk from line 1 with the common lines at the start
\* and at the end as context around the removed and the added lines
DiffOf(A, B) ==
    LET a == SplitOn(A, NL)
        b == SplitOn(B, NL)
        pre == CommonPrefix(a, b)
        post == Min(CommonPrefix(Reverse(a), Reverse(b)), Min(Len(a), Len(b)) - pre)
        Lines(op, texts) == [k \in 1..Len(texts) |-> HunkLine(op, texts[k])]
    IN  << [ wellFormed |-> TRUE,
             hunks |-> IF A = B THEN << >>
                       ELSE << [ oldStart |-> 1,
                                 lines |-> Lines(" ", Slice(a, 1, pre))
                                           \o Lines("-", Slice(a, pre + 1, Len(a) - post))
                                           \o Lines("+", Slice(b, pre + 1, Len(b) - post))
                                           \o Lines(" ", Slice(a, Len(a) - post + 1, Len(a))) ] >> ] >>

\* the contents the diffs of the model lead to: one line changed, every word
\* changed, and a single other word
DiffTargets == { <<"a", NL, "c">>, <<"c", NL, "d">>, <<"c">> }

\* the contents the diffs of the model are generated from
DiffSources == { <<"a", NL, "b">>, <<"a", SP, NL, "b">> }

\* diff operations: diffs generated from a source to a target, and a diff
\* text that cannot be parsed
DiffOperations(createBackup, conflictResolution) ==
    { Operation("diff", << >>, FALSE, << >>, FALSE, << >>,
                << >>, diff, createBackup, "none", conflictResolution) :
        diff \in { DiffOf(A, B) : A \in DiffSources, B \in DiffTargets }
                     \cup { <<[wellFormed |-> FALSE, hunks |-> << >>]>> } }

\* block and diff operations that lack a required field: no replace, no
\* search, an empty replace, no diff
IncompleteOperations(createBackup, conflictResolution) ==
    { Operation(type, search, FALSE, << >>, FALSE, << >>,
                << >>, << >>, createBackup, "none", conflictResolution) :
        type \in {"block", "diff"}, search \in {<<"b">>} }
    \cup
    { Operation("block", << >>, TRUE, <<"c">>, FALSE, << >>,
                << >>, << >>, createBackup, "none", conflictResolution),
      Operation("block", <<"b">>, TRUE, << >>, FALSE, << >>,
                << >>, << >>, createBackup, "none", conflictResolution) }

Operations ==
    UNION { LineOperations(createBackup, conflictResolution)
              \cup CompleteOperations(createBackup, conflictResolution)
              \cup BlockOperations(createBackup, conflictResolution)
              \cup DiffOperations(createBackup, conflictResolution)
              \cup IncompleteOperations(createBackup, conflictResolution) :
            createBackup \in BOOLEAN,
            conflictResolution \in {"none", "force", "revert", "manual"} }

\* ------------------------------------------------------------------------
\* State
\* ------------------------------------------------------------------------

VARIABLES
    files,      \* the file system: the content of every existing path
    inv,        \* the applyPatch invocation of every caller
    pure        \* the evaluation of a pure function of the service, step by step

vars == <<files, inv, pure>>

\* no pure function is being evaluated on its own
NoEvaluation == [fn |-> "none"]

NoOperation ==
    Operation("line", << >>, FALSE, << >>, FALSE, << >>, << >>, << >>, FALSE, "none", "none")

\* a caller that has not called applyPatch yet.  pc is the await the
\* invocation stands at; operation, context, content, newContent,
\* changesApplied and conflicts are the locals of applyPatch; error is the
\* exception in flight; after is where a rollback returns to; result is what
\* the caller got.  before, backedUp, trigger, wrote, commits, rollbacks,
\* rollbackCalls and faults (the file-system calls that failed on an
\* existing path) record what the invocation did.
Idle ==
    [ pc |-> "idle", calls |-> 0, operation |-> NoOperation,
      context |-> [backupPath |-> << >>, tempPath |-> << >>],
      content |-> << >>, newContent |-> << >>, changesApplied |-> 0, conflicts |-> << >>,
      error |-> << >>, after |-> "none", result |-> << >>,
      before |-> << >>, backedUp |-> << >>, trigger |-> << >>, wrote |-> FALSE,
      commits |-> 0, rollbacks |-> 0, rollbackCalls |-> 0, faults |-> 0 ]

\* one caller, and the target file holding one of the initial contents or
\* missing
Init ==
    /\ files \in [{FilePath} -> InitialContents] \cup {[x \in {} |-> << >>]}
    /\ inv = [p \in {1} |-> Idle]
    /\ pure = NoEvaluation

\* ------------------------------------------------------------------------
\* applyPatch
\* ------------------------------------------------------------------------

\* operation.whitespaceConfig || DEFAULT_WHITESPACE_CONFIG
EffectiveConfig(operation) == operation.whitespaceConfig

\* a thrown error in place of a strategy result
Threw(error) ==
    [threw |-> TRUE, error |-> error, newContent |-> << >>, changesApplied |-> 0,
     conflicts |-> << >>]

Computed(newContent, changesApplied, conflicts) ==
    [threw |-> FALSE, error |-> Error(<< >>, << >>), newContent |-> newContent,
     changesApplied |-> changesApplied, conflicts |-> conflicts]

\* newContent = normalized; changesApplied = 1; conflicts = completeConflicts
ComputedByReplacement(r) == Computed(r.normalized, 1, r.conflicts)

\* the assignments of the content, the changes and the conflicts a line or
\* block strategy returned
ComputedByStrategy(r) == Computed(r.content, r.changes, r.conflicts)

\* the same for the diff strategy, which may have thrown
ComputedByDiff(r) ==
    IF r.threw
    THEN Threw(Error(<<"Failed to apply diff patch", "Unknown line">>, << >>))
    ELSE Computed(r.content, r.changes, r.conflicts)

\* the switch on operation.type
Dispatch(content, operation, config) ==
    CASE operation.type = "complete" ->
            IF Len(operation.content) = 0
            THEN Threw(Error(<<"Content is required for complete replacement">>, << >>))
            ELSE ComputedByReplacement(
                     handleCompleteReplacement(content, operation.content, config,
                                               operation.mergeStrategy))
      [] operation.type = "line" ->
            ComputedByStrategy(handleLineOperation(content, operation, config))
      [] operation.type = "block"
           /\ (Len(operation.search) = 0 \/ ~operation.hasReplace \/ Len(operation.replace) = 0) ->
            Threw(Error(<<"Search and replace are required for block replacement">>, << >>))
      [] operation.type = "block"
           /\ ~(Len(operation.search) = 0 \/ ~operation.hasReplace \/ Len(operation.replace) = 0) ->
            ComputedByStrategy(handleBlockOperation(content, operation, config))
      [] operation.type = "diff" /\ Len(operation.diff) = 0 ->
            Threw(Error(<<"Diff content is required for diff patching">>, << >>))
      [] operation.type = "diff" /\ Len(operation.diff) > 0 ->
            ComputedByDiff(handleDiffOperation(content, operation))

\* a write guard that lets every verified content through
ShouldWriteUnconditionally(changesApplied, conflicts) == TRUE

\* the write guard without its test for conflicts
ShouldWriteDespiteConflicts(changesApplied, conflicts) == changesApplied > 0

\* changesApplied > 0 && conflicts.length === 0
ShouldWrite(changesApplied, conflicts) == changesApplied > 0 /\ Len(conflicts) = 0

\* the PatchResult of the normal return
SuccessResult(r) ==
    [ kind |-> "returned", success |-> TRUE,
      filePath |-> r.operation.filePath, type |-> r.operation.type,
      changesApplied |-> r.changesApplied, backupPath |-> r.context.backupPath,
      originalContent |-> SplitOn(r.content, NL), newContent |-> SplitOn(r.newContent, NL),
      conflicts |-> r.conflicts, error |-> << >> ]

\* an outer catch that lets the error through to the caller
OuterCatchRethrows(operation, error) ==
    [ kind |-> "raised", success |-> FALSE,
      filePath |-> operation.filePath, type |-> operation.type,
      changesApplied |-> 0, backupPath |-> << >>,
      originalContent |-> << >>, newContent |-> << >>,
      conflicts |-> << >>, error |-> <<error>> ]

\* the PatchResult of the outer catch
OuterCatch(operation, error) ==
    [ kind |-> "returned", success |-> FALSE,
      filePath |-> operation.filePath, type |-> operation.type,
      changesApplied |-> 0, backupPath |-> << >>,
      originalContent |-> << >>, newContent |-> << >>,
      conflicts |-> << >>, error |-> <<error>> ]

\* return { success: true, ... }
ReturnSuccess(r) == [r EXCEPT !.pc = "done", !.result = <<SuccessResult(r)>>]

\* an error that reaches the outer try
ThrowOuter(r, error) ==
    [r EXCEPT !.pc = "done", !.error = << >>, !.result = <<OuterCatch(r.operation, error)>>]

\* an error thrown inside the inner try: the inner catch runs next
ThrowInner(r, error) ==
    [r EXCEPT !.pc = "catch", !.error = <<error>>,
              !.trigger = IF Len(@) = 0 THEN <<error>> ELSE @]

\* what follows a rollback that completed: the return of handleConflicts
\* ('revert'), its throw (default), or the rethrow of the inner catch
AfterRollback(r) ==
    CASE r.after = "revert" -> ReturnSuccess(r)
      [] r.after = "default" -> ThrowInner(r, Error(<<"Unresolved conflicts">>, r.conflicts))
      [] r.after = "catch" -> ThrowOuter(r, r.error[1])

\* what follows a rollback that threw
RollbackFailed(r, error) ==
    IF r.after = "catch" THEN ThrowOuter(r, error) ELSE ThrowInner(r, error)

\* a rollback that restores nothing
StartRollbackWithoutRestore(r, after) == AfterRollback([r EXCEPT !.after = after])

\* rollbackAtomicOperation(context), entered from the place named by after
StartRollback(r, after) ==
    IF Len(r.context.backupPath) > 0 /\ Len(r.context.tempPath) > 0
    THEN [r EXCEPT !.pc = "restoreCopy", !.after = after, !.rollbackCalls = @ + 1]
    ELSE AfterRollback([r EXCEPT !.after = after])

\* the invocation of caller p becomes r
Set(p, r) == inv' = [inv EXCEPT ![p] = r] /\ UNCHANGED pure

\* a file-system call on path threw: a fault unless the path is missing
Faulted(r, path) == [r EXCEPT !.faults = IF Exists(files, path) THEN @ + 1 ELSE @]

\* a caller calls applyPatch(operation)
Call(p) ==
    /\ inv[p].pc \in {"idle", "done"}
    /\ inv[p].calls < MaxCalls
    /\ \E operation \in Operations :
          Set(p, [Idle EXCEPT !.pc = "createAtomicContext", !.calls = inv[p].calls + 1,
                              !.operation = operation,
                              !.before = FileAt(files, operation.filePath)])
    /\ UNCHANGED files

\* createAtomicContext: createBackup copies the file to <filePath>.bak
CreateAtomicContext(p) ==
    LET r == inv[p]
        filePath == r.operation.filePath
        backupPath == BackupPathOf(filePath)
    IN  /\ r.pc = "createAtomicContext"
        /\ IF r.operation.createBackup
           THEN \E ioOk \in BOOLEAN :
                   IF ioOk /\ Exists(files, filePath)
                   THEN /\ files' = CopyFileEffect(files, filePath, backupPath)
                        /\ Set(p, [r EXCEPT !.pc = "readFile",
                                            !.context = [backupPath |-> <<backupPath>>,
                                                         tempPath |-> <<filePath>>],
                                            !.backedUp = <<files[filePath]>>])
                   ELSE /\ UNCHANGED files
                        /\ Set(p, ThrowOuter(Faulted(r, filePath), FileOperationError("Failed to create backup",
                                      <<"Failed to copy file", FsCause(Exists(files, filePath))>>)))
           ELSE /\ UNCHANGED files
                /\ Set(p, [r EXCEPT !.pc = "readFile"])

\* fileService.readFile and normalizeContent
ReadFile(p) ==
    LET r == inv[p]
        filePath == r.operation.filePath
    IN  /\ r.pc = "readFile"
        /\ UNCHANGED files
        /\ \E ioOk \in BOOLEAN :
              IF ioOk /\ Exists(files, filePath)
              THEN Set(p, [r EXCEPT !.pc = "strategy",
                                    !.content = normalizeContent(files[filePath],
                                                                 EffectiveConfig(r.operation))])
              ELSE Set(p, ThrowInner(Faulted(r, filePath), FileOperationError("Failed to read file",
                                            <<FsCause(Exists(files, filePath))>>)))

\* the invocation after the switch returned or threw d
AfterStrategy(r, d) ==
    IF d.threw
    THEN ThrowInner(r, d.error)
    ELSE [r EXCEPT !.pc = "verifyChanges", !.newContent = d.newContent,
                   !.changesApplied = d.changesApplied,
                   !.conflicts = d.conflicts]

\* the strategy of the operation's type
Strategy(p) ==
    LET r == inv[p]
    IN  /\ r.pc = "strategy"
        /\ UNCHANGED files
        /\ Set(p, AfterStrategy(r, Dispatch(r.content, r.operation,
                                            EffectiveConfig(r.operation))))

\* verifyChanges and the choice between write, conflict handling and return
VerifyChanges(p) ==
    LET r == inv[p]
    IN  /\ r.pc = "verifyChanges"
        /\ UNCHANGED files
        /\ IF ~verifyChanges(r.content, r.newContent, r.operation)
           THEN Set(p, ThrowInner(r, Error(<<"Change verification failed">>, << >>)))
           ELSE IF ShouldWrite(r.changesApplied, r.conflicts)
                THEN Set(p, [r EXCEPT !.pc = "writeFile"])
                ELSE IF Len(r.conflicts) > 0
                     THEN Set(p, [r EXCEPT !.pc = "handleConflicts"])
                     ELSE Set(p, ReturnSuccess(r))

\* fileService.writeFile(operation.filePath, newContent)
WriteFile(p) ==
    LET r == inv[p]
    IN  /\ r.pc = "writeFile"
        /\ \E ioOk \in BOOLEAN :
              IF ioOk
              THEN /\ files' = WriteFileEffect(files, r.operation.filePath, r.newContent)
                   /\ Set(p, [r EXCEPT !.pc = "commit", !.wrote = TRUE])
              ELSE /\ UNCHANGED files
                   /\ Set(p, ThrowInner([r EXCEPT !.faults = @ + 1],
                                       FileOperationError("Failed to write file", <<"EIO">>)))

\* commitAtomicOperation(context), then the normal return
CommitAtomicOperation(p) ==
    LET r == inv[p]
    IN  /\ r.pc = "commit"
        /\ IF Len(r.context.backupPath) > 0
           THEN \E ioOk \in BOOLEAN :
                   IF ioOk /\ Exists(files, r.context.backupPath[1])
                   THEN /\ files' = DeleteFileEffect(files, r.context.backupPath[1])
                        /\ Set(p, ReturnSuccess([r EXCEPT !.commits = @ + 1]))
                   ELSE /\ UNCHANGED files
                        /\ Set(p, ThrowInner(Faulted(r, r.context.backupPath[1]),
                                          FileOperationError("Failed to delete file",
                                      <<FsCause(Exists(files, r.context.backupPath[1]))>>)))
           ELSE /\ UNCHANGED files
                /\ Set(p, ReturnSuccess(r))

\* handleConflicts(context, conflicts, operation.conflictResolution)
HandleConflicts(p) ==
    LET r == inv[p]
    IN  /\ r.pc = "handleConflicts"
        /\ UNCHANGED files
        /\ CASE r.operation.conflictResolution = "force" -> Set(p, [r EXCEPT !.pc = "commit"])
             [] r.operation.conflictResolution = "revert" -> Set(p, StartRollback(r, "revert"))
             [] OTHER -> Set(p, StartRollback(r, "default"))

\* the inner catch: rollbackAtomicOperation(context), then throw error
Catch(p) ==
    LET r == inv[p]
    IN  /\ r.pc = "catch"
        /\ UNCHANGED files
        /\ Set(p, StartRollback(r, "catch"))

\* a restore that copies with source and destination exchanged
RestoreCopyExchanged(fs, filePath, backupPath) == CopyFileEffect(fs, filePath, backupPath)

\* the effect of the copy of restoreFromBackup(filePath, backupPath)
RestoreCopyEffect(fs, filePath, backupPath) == CopyFileEffect(fs, backupPath, filePath)

\* restoreFromBackup: fileService.copyFile(backupPath, filePath, true)
RestoreCopy(p) ==
    LET r == inv[p]
        backupPath == r.context.backupPath[1]
    IN  /\ r.pc = "restoreCopy"
        /\ \E ioOk \in BOOLEAN :
              IF ioOk /\ Exists(files, backupPath)
              THEN /\ files' = RestoreCopyEffect(files, r.context.tempPath[1], backupPath)
                   /\ Set(p, [r EXCEPT !.pc = "restoreDelete"])
              ELSE /\ UNCHANGED files
                   /\ Set(p, RollbackFailed(Faulted(r, backupPath),
                             FileOperationError("Failed to restore from backup",
                                 <<"Failed to copy file", FsCause(Exists(files, backupPath))>>)))

\* restoreFromBackup: fileService.deleteFile(backupPath)
RestoreDelete(p) ==
    LET r == inv[p]
        backupPath == r.context.backupPath[1]
    IN  /\ r.pc = "restoreDelete"
        /\ \E ioOk \in BOOLEAN :
              IF ioOk /\ Exists(files, backupPath)
              THEN /\ files' = DeleteFileEffect(files, backupPath)
                   /\ Set(p, AfterRollback([r EXCEPT !.rollbacks = @ + 1]))
              ELSE /\ UNCHANGED files
                   /\ Set(p, RollbackFailed(Faulted(r, backupPath),
                             FileOperationError("Failed to restore from backup",
                                 <<"Failed to delete file", FsCause(Exists(files, backupPath))>>)))

Next ==
    \/ \E p \in DOMAIN inv : Call(p)
    \/ \E p \in DOMAIN inv : CreateAtomicContext(p)
    \/ \E p \in DOMAIN inv : ReadFile(p)
    \/ \E p \in DOMAIN inv : Strategy(p)
    \/ \E p \in DOMAIN inv : VerifyChanges(p)
    \/ \E p \in DOMAIN inv : WriteFile(p)
    \/ \E p \in DOMAIN inv : CommitAtomicOperation(p)
    \/ \E p \in DOMAIN inv : HandleConflicts(p)
    \/ \E p \in DOMAIN inv : Catch(p)
    \/ \E p \in DOMAIN inv : RestoreCopy(p)
    \/ \E p \in DOMAIN inv : RestoreDelete(p)

Spec == Init /\ [][Next]_vars

\* ------------------------------------------------------------------------
\* Two invocations of applyPatch on one file
\* ------------------------------------------------------------------------

\* complete replacements with a backup: by contents that pass and that fail
\* the verification, and by a merge that leaves conflicts
ConcurrentOperations ==
    { Operation("complete", << >>, FALSE, << >>, FALSE, << >>,
                content, << >>, TRUE, mergeStrategy, "none") :
        content \in { <<"c">>, <<"a", NL, "c">>, <<"b", NL, "c">> },
        mergeStrategy \in {"none", "merge"} }

\* two callers that have not called yet, and the target file
ConcurrentInit ==
    /\ files = [x \in {FilePath} |-> <<"a", NL, "b">>]
    /\ inv = [p \in {1, 2} |-> Idle]
    /\ pure = NoEvaluation

\* a caller calls applyPatch(operation), once
ConcurrentCall(p) ==
    /\ inv[p].pc = "idle"
    /\ \E operation \in ConcurrentOperations :
          Set(p, [Idle EXCEPT !.pc = "createAtomicContext", !.calls = 1,
                              !.operation = operation,
                              !.before = FileAt(files, operation.filePath)])
    /\ UNCHANGED files

\* the awaits of the two invocations interleave in any order
ConcurrentNext ==
    \/ \E p \in DOMAIN inv : ConcurrentCall(p)
    \/ \E p \in DOMAIN inv : CreateAtomicContext(p)
    \/ \E p \in DOMAIN inv : ReadFile(p)
    \/ \E p \in DOMAIN inv : Strategy(p)
    \/ \E p \in DOMAIN inv : VerifyChanges(p)
    \/ \E p \in DOMAIN inv : WriteFile(p)
    \/ \E p \in DOMAIN inv : CommitAtomicOperation(p)
    \/ \E p \in DOMAIN inv : HandleConflicts(p)
    \/ \E p \in DOMAIN inv : Catch(p)
    \/ \E p \in DOMAIN inv : RestoreCopy(p)
    \/ \E p \in DOMAIN inv : RestoreDelete(p)

ConcurrentSpec == ConcurrentInit /\ [][ConcurrentNext]_vars

\* ------------------------------------------------------------------------
\* The line strategy on its own
\* ------------------------------------------------------------------------

\* the sequences over S of length at most n
SeqsUpTo(S, n) == UNION {[1..k -> S] : k \in 0..n}

\* lines: two without a marker, one that is a marker, one that holds a marker
LineTexts == { <<"a">>, <<"b">>, TODO, <<"x">> \o IMPORTANT }

LineStrategyContents ==
    { Join(lines, <<NL>>) : lines \in SeqsUpTo(LineTexts, MaxLines) \ {<< >>} }

\* by line numbers (in range, repeated, one past the end) and by search
\* text, replacing and deleting
LineStrategyOperations ==
    { Operation("line", << >>, hasReplace, IF hasReplace THEN <<"c">> ELSE << >>,
                TRUE, lineNumbers, << >>, << >>, FALSE, "none", "none") :
        hasReplace \in BOOLEAN,
        lineNumbers \in SeqsUpTo(1..(MaxLines + 1), MaxLineNumbers) }
    \cup
    { Operation("line", search, hasReplace, IF hasReplace THEN <<"c">> ELSE << >>,
                FALSE, << >>, << >>, << >>, FALSE, "none", "none") :
        hasReplace \in BOOLEAN, search \in LineTexts }

\* handleLineOperation(content, operation, config) at its entry: acc is the
\* running [lines, changes, conflicts], rest the line numbers still to come,
\* i the index of the pattern loop
LineStrategyInit ==
    /\ files = [x \in {} |-> << >>]
    /\ inv = [p \in {} |-> Idle]
    /\ \E content \in LineStrategyContents, operation \in LineStrategyOperations :
          pure = [ fn |-> "handleLineOperation", pc |-> "loop",
                   content |-> content, operation |-> operation,
                   config |-> EffectiveConfig(operation),
                   acc |-> [lines |-> SplitOn(content, NL), changes |-> 0, conflicts |-> << >>],
                   rest |-> operation.lineNumbers, i |-> 0, result |-> << >> ]

\* one iteration of the loop over operation.lineNumbers
LineNumberIteration ==
    /\ pure.pc = "loop"
    /\ pure.operation.hasLineNumbers /\ Len(pure.rest) > 0
    /\ pure' = [pure EXCEPT !.acc = LineNumberStep(@, Head(pure.rest), pure.operation),
                            !.rest = Tail(@)]
    /\ UNCHANGED <<files, inv>>

\* one iteration of the loop over the lines
PatternIteration ==
    /\ pure.pc = "loop"
    /\ ~pure.operation.hasLineNumbers /\ Len(pure.operation.search) > 0
    /\ pure.i < Len(pure.acc.lines)
    /\ LET next == PatternStep(pure.acc, pure.i,
                               createTokenPattern(pure.operation.search, pure.config),
                               pure.operation, pure.config)
       IN  pure' = [pure EXCEPT !.acc = next.acc, !.i = next.i]
    /\ UNCHANGED <<files, inv>>

\* return { content: lines.join('\n'), changes, conflicts }
LineReturn ==
    /\ pure.pc = "loop"
    /\ IF pure.operation.hasLineNumbers THEN Len(pure.rest) = 0
       ELSE Len(pure.operation.search) = 0 \/ pure.i >= Len(pure.acc.lines)
    /\ pure' = [pure EXCEPT !.pc = "returned",
                            !.result = <<StrategyResult(Join(pure.acc.lines, <<NL>>),
                                                        pure.acc.changes, pure.acc.conflicts)>>]
    /\ UNCHANGED <<files, inv>>

LineStrategyNext ==
    \/ LineNumberIteration
    \/ PatternIteration
    \/ LineReturn

LineStrategySpec == LineStrategyInit /\ [][LineStrategyNext]_vars

\* ------------------------------------------------------------------------
\* The diff strategy on its own
\* ------------------------------------------------------------------------

\* the most patches a diff text holds
MaxPatches == 2

\* the parsed patches: generated from a source to a target, and one
\* without hunks
ParsedPatches ==
    { DiffOf(A, B)[1] : A \in DiffSources, B \in DiffTargets }
        \cup { [wellFormed |-> TRUE, hunks |-> << >>] }

\* diff operations with up to MaxPatches patches, and one whose text cannot
\* be parsed
DiffStrategyOperations ==
    { Operation("diff", << >>, FALSE, << >>, FALSE, << >>,
                << >>, diff, FALSE, "none", "none") :
        diff \in (SeqsUpTo(ParsedPatches, MaxPatches) \ {<< >>})
                     \cup { <<[wellFormed |-> FALSE, hunks |-> << >>]>> } }

\* handleDiffOperation(content, operation) at its entry: acc is the running
\* [newContent, changes, conflicts], rest the patches still to come
DiffStrategyInit ==
    /\ files = [x \in {} |-> << >>]
    /\ inv = [p \in {} |-> Idle]
    /\ \E content \in DiffSources \cup DiffTargets, operation \in DiffStrategyOperations :
          pure = [ fn |-> "handleDiffOperation", pc |-> "parsePatch",
                   content |-> content, operation |-> operation,
                   acc |-> [newContent |-> content, changes |-> 0, conflicts |-> << >>],
                   rest |-> << >>, result |-> << >> ]

\* diff.parsePatch(operation.diff): the patches, or the throw that the
\* catch turns into `Failed to apply diff patch: ...`
ParsePatch ==
    /\ pure.pc = "parsePatch"
    /\ pure' = IF ParsePatchThrows(pure.operation.diff)
               THEN [pure EXCEPT !.pc = "threw"]
               ELSE [pure EXCEPT !.pc = "loop", !.rest = pure.operation.diff]
    /\ UNCHANGED <<files, inv>>

\* one iteration of the loop over the patches
DiffIteration ==
    /\ pure.pc = "loop" /\ pure.fn = "handleDiffOperation"
    /\ Len(pure.rest) > 0
    /\ pure' = [pure EXCEPT !.acc = DiffStep(@, Head(pure.rest)), !.rest = Tail(@)]
    /\ UNCHANGED <<files, inv>>

\* return { content: newContent, changes, conflicts }
DiffReturn ==
    /\ pure.pc = "loop" /\ pure.fn = "handleDiffOperation"
    /\ Len(pure.rest) = 0
    /\ pure' = [pure EXCEPT !.pc = "returned",
                            !.result = <<StrategyResult(pure.acc.newContent, pure.acc.changes,
                                                        pure.acc.conflicts)>>]
    /\ UNCHANGED <<files, inv>>

DiffStrategyNext ==
    \/ ParsePatch
    \/ DiffIteration
    \/ DiffReturn

DiffStrategySpec == DiffStrategyInit /\ [][DiffStrategyNext]_vars

\* ------------------------------------------------------------------------
\* performThreeWayMerge on its own
\* ------------------------------------------------------------------------

\* the longest content that is merged on its own
MaxMergeLen == 2

\* contents of a letter, a blank and a symbol
MergeTexts == SeqsUpTo({"a", SP, ";"}, MaxMergeLen)

\* performThreeWayMerge(base, current, target) after the three tokenize
\* calls: at is i + 1 = j + 1 = k + 1, acc the running [merged, conflicts]
MergeInit ==
    /\ files = [x \in {} |-> << >>]
    /\ inv = [p \in {} |-> Idle]
    /\ \E base \in MergeTexts, current \in MergeTexts, target \in MergeTexts :
          pure = [ fn |-> "performThreeWayMerge", pc |-> "loop",
                   base |-> base, current |-> current, target |-> target,
                   baseTokens |-> tokenize(base), currentTokens |-> tokenize(current),
                   targetTokens |-> tokenize(target),
                   at |-> 1, acc |-> [merged |-> << >>, conflicts |-> << >>],
                   result |-> << >> ]

\* i < baseTokens.length || j < currentTokens.length || k < targetTokens.length
MergeUnexhausted ==
    \/ pure.at <= Len(pure.baseTokens)
    \/ pure.at <= Len(pure.currentTokens)
    \/ pure.at <= Len(pure.targetTokens)

\* one iteration of the while loop
MergePosition ==
    /\ pure.fn = "performThreeWayMerge" /\ pure.pc = "loop"
    /\ MergeUnexhausted
    /\ pure' = [pure EXCEPT !.acc = MergeStep(@, pure.baseTokens, pure.currentTokens,
                                              pure.targetTokens, pure.at),
                            !.at = @ + 1]
    /\ UNCHANGED <<files, inv>>

\* return { normalized: merged.join(''), conflicts }
MergeReturn ==
    /\ pure.fn = "performThreeWayMerge" /\ pure.pc = "loop"
    /\ ~MergeUnexhausted
    /\ pure' = [pure EXCEPT !.pc = "returned",
                            !.result = <<[normalized |-> Join(pure.acc.merged, << >>),
                                          conflicts |-> pure.acc.conflicts]>>]
    /\ UNCHANGED <<files, inv>>

MergeNext ==
    \/ MergePosition
    \/ MergeReturn

MergeSpec == MergeInit /\ [][MergeNext]_vars

\* ------------------------------------------------------------------------
\* The block strategy on its own
\* ------------------------------------------------------------------------

\* texts of words and blanks
BlockTexts ==
    { <<"a", SP, "b", SP, "c">>, <<"x", SP, "y", SP, "z">>, <<"a", SP, "b">>, <<"x">> }

\* what follows the words in a content: nothing, braces or a semicolon
BlockSuffixes == { << >>, <<"{">>, <<"{", "}">>, <<";">> }

BlockContents == { text \o suffix : text \in BlockTexts, suffix \in BlockSuffixes }

\* block operations with a search text, and a replacement that is absent,
\* balanced or not
BlockStrategyOperations ==
    { [Operation("block", search, TRUE, replace, FALSE, << >>,
                 << >>, << >>, FALSE, "none", "none")
          EXCEPT !.whitespaceConfig = config] :
        search \in BlockTexts,
        replace \in {<< >>} \cup { text \o suffix : text \in BlockTexts,
                                                    suffix \in {<< >>, <<"{">>} },
        config \in {DEFAULT_WHITESPACE_CONFIG, LiteralWhitespaceConfig} }

\* handleBlockOperation(content, operation, config) at its entry.  done
\* holds, for every chunk gone through, the chunk and what was appended to
\* newContent for it
BlockStrategyInit ==
    /\ files = [x \in {} |-> << >>]
    /\ inv = [p \in {} |-> Idle]
    /\ \E content \in BlockContents, operation \in BlockStrategyOperations :
          pure = [ fn |-> "handleBlockOperation", pc |-> "entry",
                   content |-> content, operation |-> operation,
                   flexPattern |-> << >>, replaceNormalized |-> << >>,
                   acc |-> [newContent |-> << >>, changes |-> 0, conflicts |-> << >>],
                   rest |-> << >>, done |-> << >>, result |-> << >> ]

\* the test of search and replace, the two normalizeContent calls,
\* createBlockTokenPattern and splitIntoChunks
BlockEntry ==
    /\ pure.fn = "handleBlockOperation" /\ pure.pc = "entry"
    /\ LET operation == pure.operation
           config == EffectiveConfig(operation)
       IN  pure' = IF Len(operation.search) = 0 \/ ~operation.hasReplace
                         \/ Len(operation.replace) = 0
                   THEN [pure EXCEPT !.pc = "threw"]
                   ELSE [pure EXCEPT
                           !.pc = "loop",
                           !.flexPattern = createBlockTokenPattern(
                                               normalizeContent(operation.search, config), config),
                           !.replaceNormalized = normalizeContent(operation.replace, config),
                           !.rest = splitIntoChunks(pure.content, CHUNK_SIZE)]
    /\ UNCHANGED <<files, inv>>

\* what one iteration appended to newContent
Appended(before, after) == Slice(after, Len(before) + 1, Len(after))

\* one iteration of the loop over the chunks
BlockIteration ==
    /\ pure.fn = "handleBlockOperation" /\ pure.pc = "loop"
    /\ Len(pure.rest) > 0
    /\ pure' = [pure EXCEPT
                  !.acc = BlockStep(@, Head(pure.rest), pure.flexPattern, pure.replaceNormalized),
                  !.rest = Tail(@),
                  !.done = Append(@, [chunk |-> Head(pure.rest),
                                      appended |-> Appended(pure.acc.newContent,
                                          BlockStep(pure.acc, Head(pure.rest), pure.flexPattern,
                                                    pure.replaceNormalized).newContent)])]
    /\ UNCHANGED <<files, inv>>

\* return { content: newContent, changes, conflicts }
BlockReturn ==
    /\ pure.fn = "handleBlockOperation" /\ pure.pc = "loop"
    /\ Len(pure.rest) = 0
    /\ pure' = [pure EXCEPT !.pc = "returned",
                            !.result = <<StrategyResult(pure.acc.newContent, pure.acc.changes,
                                                        pure.acc.conflicts)>>]
    /\ UNCHANGED <<files, inv>>

BlockStrategyNext ==
    \/ BlockEntry
    \/ BlockIteration
    \/ BlockReturn

BlockStrategySpec == BlockStrategyInit /\ [][BlockStrategyNext]_vars

\* ------------------------------------------------------------------------
\* normalizeContent on its own
\* ------------------------------------------------------------------------

\* the longest text that is normalized on its own
MaxTextLen == 3

\* texts of letters, blanks and line-ending characters
NormalizeTexts == SeqsUpTo({"a", SP, TAB, NL, CR}, MaxTextLen)

\* the whitespace configurations: every choice of the three flags that
\* normalizeContent reads; no default indentation, a tab, two spaces, and a
\* text that is not blank; no default line ending, "\r\n", "\r", and two
\* line feeds
NormalizeConfigs ==
    { [ preserveIndentation |-> preserveIndentation,
        preserveLineEndings |-> preserveLineEndings,
        normalizeWhitespace |-> TRUE,
        trimTrailingWhitespace |-> trimTrailingWhitespace,
        defaultIndentation |-> defaultIndentation,
        defaultLineEnding |-> defaultLineEnding ] :
        preserveIndentation \in BOOLEAN, preserveLineEndings \in BOOLEAN,
        trimTrailingWhitespace \in BOOLEAN,
        defaultIndentation \in { << >>, <<TAB>>, <<SP, SP>>, <<SP, "a">> },
        defaultLineEnding \in { << >>, <<CR, NL>>, <<CR>>, <<NL, NL>> } }

\* a text and a configuration; NotNormalized stands for a result not yet
\* computed
NotNormalized == [normalized |-> << >>, hash |-> << >>]

NormalizeInit ==
    /\ files = [x \in {} |-> << >>]
    /\ inv = [p \in {} |-> Idle]
    /\ \E content \in NormalizeTexts : \E config \in NormalizeConfigs :
          pure = [ fn |-> "normalizeContent", pc |-> "start",
                   content |-> content, config |-> config,
                   once |-> NotNormalized, twice |-> NotNormalized ]

\* normalizeContent(content, config): the normalized text and its hash
Normalized(content, config) ==
    [ normalized |-> normalizeContent(content, config),
      hash |-> ContentHash(normalizeContent(content, config)) ]

\* the first pass, on the text
NormalizeOnce ==
    /\ pure.pc = "start"
    /\ pure' = [pure EXCEPT !.pc = "once",
                            !.once = Normalized(pure.content, pure.config)]
    /\ UNCHANGED <<files, inv>>

\* the second pass, on the output of the first
NormalizeTwice ==
    /\ pure.pc = "once"
    /\ pure' = [pure EXCEPT !.pc = "twice",
                            !.twice = Normalized(pure.once.normalized, pure.config)]
    /\ UNCHANGED <<files, inv>>

NormalizeNext ==
    \/ NormalizeOnce
    \/ NormalizeTwice

NormalizeSpec == NormalizeInit /\ [][NormalizeNext]_vars

\* ------------------------------------------------------------------------
\* calculateSimilarity on its own
\* ------------------------------------------------------------------------

\* the longest token sequence that is scored on its own
MaxTokens == 3

\* sequences of the tokens "a" and "b", the empty sequence among them
TokenSequences == SeqsUpTo({<<"a">>, <<"b">>}, MaxTokens)

SimilarityInit ==
    /\ files = [x \in {} |-> << >>]
    /\ inv = [p \in {} |-> Idle]
    /\ \E tokens1 \in TokenSequences : \E tokens2 \in TokenSequences :
          pure = [ fn |-> "calculateSimilarity", pc |-> "start",
                   tokens1 |-> tokens1, tokens2 |-> tokens2, score |-> << >> ]

\* calculateSimilarity(tokens1, tokens2) returns
SimilarityReturn ==
    /\ pure.pc = "start"
    /\ pure' = [pure EXCEPT !.pc = "returned",
                            !.score = <<calculateSimilarity(pure.tokens1, pure.tokens2)>>]
    /\ UNCHANGED <<files, inv>>

SimilarityNext == SimilarityReturn

SimilaritySpec == SimilarityInit /\ [][SimilarityNext]_vars

\* ------------------------------------------------------------------------
\* StreamProcessorImpl.processFile
\* ------------------------------------------------------------------------

\* the longest file that is streamed
MaxStreamLen == 3

\* `${filePath}.tmp`
TempPathOf(filePath) == filePath \o ".tmp"

\* files of letters and line feeds
StreamContents == SeqsUpTo({"a", NL}, MaxStreamLen)

\* the configurations of the processor: chunks of one line or two
\* characters, and of two lines or four characters
StreamConfigs ==
    { [maxChunkSize |-> 2, maxLinesPerChunk |-> 1],
      [maxChunkSize |-> 4, maxLinesPerChunk |-> 2] }

\* the processor given by the caller: it writes every a as A
Processor(content) == [k \in 1..Len(content) |-> IF content[k] = "a" THEN "A" ELSE content[k]]

\* shouldProcessChunk()
shouldProcessChunk(buffer, config) ==
    \/ Len(buffer) >= config.maxChunkSize
    \/ Len(SplitOn(buffer, NL)) - 1 >= config.maxLinesPerChunk

\* extractChunk(): the chunk, its line count and the buffer it leaves
extractChunk(buffer, config) ==
    LET lines == SplitOn(buffer, NL)
        taken == Min(config.maxLinesPerChunk, Len(lines))
    IN  [ content |-> Join(Slice(lines, 1, taken), <<NL>>),
          lineCount |-> taken,
          buffer |-> Join(Slice(lines, taken + 1, Len(lines)), <<NL>>) ]

\* a ChunkResult
ChunkResult(success, chunkIndex, startLine, endLine, bytesProcessed) ==
    [ success |-> success, chunkIndex |-> chunkIndex, startLine |-> startLine,
      endLine |-> endLine, bytesProcessed |-> bytesProcessed ]

\* a processor on a file that exists or not; processFile(filePath,
\* processor) has been called and stands at fs.stat.  unread is what the
\* read stream has still to deliver, passed the chunks given to the
\* processor, settled the state of the returned promise
StreamInit ==
    /\ inv = [p \in {} |-> Idle]
    /\ \E content \in StreamContents, config \in StreamConfigs, exists \in BOOLEAN :
          /\ files = IF exists THEN [x \in {FilePath} |-> content] ELSE [x \in {} |-> << >>]
          /\ pure = [ fn |-> "processFile", pc |-> "stat", config |-> config,
                      original |-> IF exists THEN <<content>> ELSE << >>,
                      unread |-> << >>, buffer |-> << >>, output |-> << >>, flushing |-> FALSE,
                      chunkIndex |-> 0, bytesProcessed |-> 0, linesProcessed |-> 0,
                      passed |-> << >>, results |-> << >>,
                      settled |-> "pending", value |-> << >>, unlinked |-> FALSE ]

\* await fs.stat(filePath): a throw rejects the promise of the async function
Stat ==
    /\ pure.fn = "processFile" /\ pure.pc = "stat"
    /\ \E ioOk \in BOOLEAN :
          pure' = IF ioOk /\ Exists(files, FilePath)
                  THEN [pure EXCEPT !.pc = "open"]
                  ELSE [pure EXCEPT !.pc = "done", !.settled = "rejected"]
    /\ UNCHANGED <<files, inv>>

\* createReadStream(filePath) and createWriteStream(tempPath): the
\* temporary file is created empty, or a stream fails to open
OpenStreams ==
    /\ pure.fn = "processFile" /\ pure.pc = "open"
    /\ \E ioOk \in BOOLEAN :
          IF ioOk /\ Exists(files, FilePath)
          THEN /\ files' = WriteFileEffect(files, TempPathOf(FilePath), << >>)
               /\ pure' = [pure EXCEPT !.pc = "read", !.unread = files[FilePath]]
          ELSE /\ UNCHANGED files
               /\ pure' = [pure EXCEPT !.pc = "pipelineFailed"]
    /\ UNCHANGED inv

\* the read stream delivers a part of the file to the transform, whose
\* processChunk starts with this.buffer += chunk; or the read fails
ReadData ==
    /\ pure.fn = "processFile" /\ pure.pc = "read"
    /\ Len(pure.unread) > 0
    /\ \E ioOk \in BOOLEAN :
          IF ioOk
          THEN \E n \in 1..Len(pure.unread) :
                  pure' = [pure EXCEPT !.pc = "processChunk",
                                      !.buffer = @ \o Slice(pure.unread, 1, n),
                                      !.unread = Slice(@, n + 1, Len(@)),
                                      !.output = << >>]
          ELSE pure' = [pure EXCEPT !.pc = "pipelineFailed"]
    /\ UNCHANGED <<files, inv>>

\* the end of the input: flush calls processChunk(this.buffer), which
\* starts with this.buffer += chunk, when the buffer is not empty
Flush ==
    /\ pure.fn = "processFile" /\ pure.pc = "read"
    /\ Len(pure.unread) = 0
    /\ pure' = IF Len(pure.buffer) > 0
               THEN [pure EXCEPT !.pc = "processChunk", !.buffer = @ \o @,
                                 !.output = << >>, !.flushing = TRUE]
               ELSE [pure EXCEPT !.pc = "finish", !.flushing = TRUE]
    /\ UNCHANGED <<files, inv>>

\* one iteration of the while loop of processChunk: a chunk is extracted
\* and given to the processor, which returns or throws
ProcessorCall ==
    /\ pure.fn = "processFile" /\ pure.pc = "processChunk"
    /\ shouldProcessChunk(pure.buffer, pure.config)
    /\ LET chunk == extractChunk(pure.buffer, pure.config)
           startLine == pure.linesProcessed
           endLine == pure.linesProcessed + chunk.lineCount
       IN  \E ok \in BOOLEAN :
              pure' = IF ok
                      THEN [pure EXCEPT
                              !.buffer = chunk.buffer,
                              !.passed = Append(@, chunk.content),
                              !.bytesProcessed = @ + Len(chunk.content),
                              !.linesProcessed = @ + chunk.lineCount,
                              !.chunkIndex = @ + 1,
                              !.results = Append(@, ChunkResult(TRUE, pure.chunkIndex, startLine,
                                                                endLine, Len(chunk.content))),
                              !.output = @ \o Processor(chunk.content)]
                      ELSE [pure EXCEPT
                              !.buffer = chunk.buffer,
                              !.passed = Append(@, chunk.content),
                              !.chunkIndex = @ + 1,
                              !.results = Append(@, ChunkResult(FALSE, pure.chunkIndex, startLine,
                                                                endLine, 0))]
    /\ UNCHANGED <<files, inv>>

\* processChunk returns its output and the callback hands it to the write
\* stream, which appends it to the temporary file or fails
TransformCallback ==
    /\ pure.fn = "processFile" /\ pure.pc = "processChunk"
    /\ ~shouldProcessChunk(pure.buffer, pure.config)
    /\ \E ioOk \in BOOLEAN :
          IF ioOk /\ Exists(files, TempPathOf(FilePath))
          THEN /\ files' = WriteFileEffect(files, TempPathOf(FilePath),
                                           files[TempPathOf(FilePath)] \o pure.output)
               /\ pure' = [pure EXCEPT !.pc = IF pure.flushing THEN "finish" ELSE "read"]
          ELSE /\ UNCHANGED files
               /\ pure' = [pure EXCEPT !.pc = "pipelineFailed"]
    /\ UNCHANGED inv

\* the write stream finishes and the promise of pipelineAsync is fulfilled.
\* Only .catch is attached to it: no callback runs, and the branch of the
\* catch callback that renames the temporary file and resolves is never
\* entered, the callback being called with the error of a failed pipeline
PipelineFulfilled ==
    /\ pure.fn = "processFile" /\ pure.pc = "finish"
    /\ pure' = [pure EXCEPT !.pc = "pipelineFulfilled"]
    /\ UNCHANGED <<files, inv>>

\* the catch callback of a failed pipeline: fs.unlink(tempPath), whose
\* failure is ignored, and the reject
PipelineCatch ==
    /\ pure.fn = "processFile" /\ pure.pc = "pipelineFailed"
    /\ \E ioOk \in BOOLEAN :
          IF ioOk /\ Exists(files, TempPathOf(FilePath))
          THEN /\ files' = DeleteFileEffect(files, TempPathOf(FilePath))
               /\ pure' = [pure EXCEPT !.pc = "done", !.settled = "rejected", !.unlinked = TRUE]
          ELSE /\ UNCHANGED files
               /\ pure' = [pure EXCEPT !.pc = "done", !.settled = "rejected"]
    /\ UNCHANGED inv

StreamNext ==
    \/ Stat
    \/ OpenStreams
    \/ ReadData
    \/ Flush
    \/ ProcessorCall
    \/ TransformCallback
    \/ PipelineFulfilled
    \/ PipelineCatch

StreamSpec == StreamInit /\ [][StreamNext]_vars

\* ------------------------------------------------------------------------
\* WatchServiceImpl
\* ------------------------------------------------------------------------

\* the native events of a run
MaxNativeEvents == 3

\* the watch calls of a run
MaxWatches == 2

\* the watched directory
WatchPath == "d"

\* filename of a native event: null or a name
Filenames == {"null", "x"}

\* filename ? path.join(watchPath, filename) : watchPath
FullPath(watchPath, filename) ==
    IF filename = "null" THEN watchPath ELSE watchPath \o "/" \o filename

\* a service after its constructor.  watchers maps a watched path to its
\* watchWrapper (the number of the watch call that made it), native holds
\* the wrappers whose native watcher is open, debounceTimers maps a full
\* path to the pending timer, handling holds the handleWatchEvent calls
\* waiting for fs.access, emitted the events emitted on the wrappers (late:
\* after the wrapper's close() returned), closed the wrappers closed
WatchInit ==
    /\ files = [x \in {} |-> << >>]
    /\ inv = [p \in {} |-> Idle]
    /\ pure = [ fn |-> "WatchService",
                watchers |-> [x \in {} |-> 0], native |-> {}, watches |-> 0,
                nativeEvents |-> 0,
                debounceTimers |-> [x \in {} |-> 0], handling |-> << >>,
                emitted |-> << >>, closed |-> {}, threw |-> << >> ]

\* this.watchers.has(watchPath)
isWatching(watchPath) == watchPath \in DOMAIN pure.watchers

\* watch(watchPath): fs.access throws, the path is already watched, or a
\* native watcher and its wrapper are made and stored
Watch ==
    /\ pure.fn = "WatchService"
    /\ pure.watches < MaxWatches
    /\ \E ioOk \in BOOLEAN :
          pure' = IF ~ioOk
                  THEN [pure EXCEPT !.watches = @ + 1, !.threw = <<"Failed to start watching">>]
                  ELSE IF isWatching(WatchPath)
                  THEN [pure EXCEPT !.watches = @ + 1,
                                    !.threw = <<"Path is already being watched">>]
                  ELSE [pure EXCEPT
                          !.watches = @ + 1, !.threw = << >>,
                          !.native = @ \cup {pure.watches + 1},
                          !.watchers = [x \in {WatchPath} |-> pure.watches + 1]]
    /\ UNCHANGED <<files, inv>>

\* the 'change' listener of an open native watcher: the pending timer of
\* the full path is cleared and a new one is set
NativeEvent ==
    /\ pure.fn = "WatchService"
    /\ pure.nativeEvents < MaxNativeEvents
    /\ \E watcher \in pure.native, eventType \in {"rename", "change"}, filename \in Filenames :
          pure' = [pure EXCEPT
                     !.nativeEvents = @ + 1,
                     !.debounceTimers =
                         [x \in DOMAIN @ \cup {FullPath(WatchPath, filename)} |->
                             IF x = FullPath(WatchPath, filename)
                             THEN [watcher |-> watcher, eventType |-> eventType,
                                   filename |-> filename]
                             ELSE @[x]]]
    /\ UNCHANGED <<files, inv>>

\* a debounce timer fires: handleWatchEvent runs up to its await of
\* fs.access, and the timer is taken off debounceTimers
TimerFires ==
    /\ pure.fn = "WatchService"
    /\ \E fullPath \in DOMAIN pure.debounceTimers :
          pure' = [pure EXCEPT
                     !.handling = Append(@, pure.debounceTimers[fullPath]),
                     !.debounceTimers = [x \in DOMAIN @ \ {fullPath} |-> @[x]]]
    /\ UNCHANGED <<files, inv>>

\* the events that handleWatchEvent emits on the wrapper: the specific
\* event and the generic change event
EmittedBy(handler, closed) ==
    << [watcher |-> handler.watcher, event |-> handler.eventType,
        late |-> handler.watcher \in closed],
       [watcher |-> handler.watcher, event |-> "change",
        late |-> handler.watcher \in closed] >>

\* fs.access of a handleWatchEvent call settles: the events are emitted
HandleWatchEvent ==
    /\ pure.fn = "WatchService"
    /\ \E k \in 1..Len(pure.handling) :
          pure' = [pure EXCEPT
                     !.handling = Slice(@, 1, k - 1) \o Slice(@, k + 1, Len(@)),
                     !.emitted = @ \o EmittedBy(pure.handling[k], pure.closed)]
    /\ UNCHANGED <<files, inv>>

\* unwatch(watchPath): throws when the path is not watched; else the
\* wrapper's close() closes the native watcher and deletes the path from
\* watchers
Unwatch ==
    /\ pure.fn = "WatchService"
    /\ pure' = IF ~isWatching(WatchPath)
               THEN [pure EXCEPT !.threw = <<"Path is not being watched">>]
               ELSE [pure EXCEPT
                       !.threw = << >>,
                       !.native = @ \ {pure.watchers[WatchPath]},
                       !.closed = @ \cup {pure.watchers[WatchPath]},
                       !.watchers = [x \in {} |-> 0]]
    /\ UNCHANGED <<files, inv>>

WatchNext ==
    \/ Watch
    \/ NativeEvent
    \/ TimerFires
    \/ HandleWatchEvent
    \/ Unwatch

WatchSpec == WatchInit /\ [][WatchNext]_vars

\* ------------------------------------------------------------------------
\* RateLimiterService
\* ------------------------------------------------------------------------

\* this.limits, as the constructor fills it
limits ==
    [ tool     |-> [maxRequests |-> 100, windowMs |-> 60 * 1000],
      resource |-> [maxRequests |-> 200, windowMs |-> 60 * 1000],
      watch    |-> [maxRequests |-> 20, windowMs |-> 60 * 1000] ]

\* this.requests.get(operationType) || { count: 0, resetTime: now + limit.windowMs }
TrackerOf(requests, operationType, now) ==
    IF operationType \in DOMAIN requests
    THEN requests[operationType]
    ELSE [count |-> 0, resetTime |-> now + limits[operationType].windowMs]

\* the tracker after `if (now >= tracker.resetTime)`
WindowAt(tracker, operationType, now) ==
    IF now >= tracker.resetTime
    THEN [count |-> 0, resetTime |-> now + limits[operationType].windowMs]
    ELSE tracker

\* this.requests.set(operationType, tracker)
SetTracker(requests, operationType, tracker) ==
    [t \in DOMAIN requests \cup {operationType} |->
        IF t = operationType THEN tracker ELSE requests[t]]

\* the outcome of checkRateLimit for the tracker of the window at now; a
\* tracker that is already in the map is reset in place also when the call
\* throws
CheckedAgainst(requests, operationType, tracker) ==
    IF tracker.count >= limits[operationType].maxRequests
    THEN [ threw |-> TRUE,
           requests |-> IF operationType \in DOMAIN requests
                        THEN SetTracker(requests, operationType, tracker)
                        ELSE requests ]
    ELSE [ threw |-> FALSE,
           requests |-> SetTracker(requests, operationType,
                                   [tracker EXCEPT !.count = @ + 1]) ]

\* checkRateLimit(operationType) at the time now: [threw, requests]
checkRateLimit(requests, operationType, now) ==
    IF operationType \notin DOMAIN limits
    THEN [threw |-> FALSE, requests |-> requests]
    ELSE CheckedAgainst(requests, operationType,
                        WindowAt(TrackerOf(requests, operationType, now), operationType, now))

\* what a handler did so far that calls checkRateLimit once per item
CheckedSoFar(requests, admitted, threw) ==
    [requests |-> requests, admitted |-> admitted, threw |-> threw]

\* one more call, unless an earlier one threw
CheckOneMore(acc, result) ==
    IF result.threw
    THEN CheckedSoFar(result.requests, acc.admitted, TRUE)
    ELSE CheckedSoFar(result.requests, acc.admitted + 1, FALSE)

\* n calls of checkRateLimit in one handler, at one reading of the clock,
\* as the first n \div 2 calls followed by the others; the first throw ends
\* the handler
RECURSIVE CheckMany(_, _, _, _)
CheckMany(acc, operationType, now, n) ==
    IF n = 0 \/ acc.threw THEN acc
    ELSE IF n = 1
    THEN CheckOneMore(acc, checkRateLimit(acc.requests, operationType, now))
    ELSE CheckMany(CheckMany(acc, operationType, now, n \div 2),
                   operationType, now, n - n \div 2)

\* how many handlers the limiter serves
MaxHandlers == 3

\* the operation types the handlers name, one of them without a limit
OperationTypes == {"tool", "resource", "watch", "prompt"}

\* how many calls a handler makes: one, or as many as the limit of its type
\* or one less
CallCounts(operationType) ==
    IF operationType \in DOMAIN limits
    THEN {1, limits[operationType].maxRequests - 1, limits[operationType].maxRequests}
    ELSE {1}

\* how long after the handler before it the next one runs, in milliseconds
Delays == {0, 1, 60 * 1000 - 1, 60 * 1000}

\* a fresh RateLimiterService; served lists for each handler its type, its
\* time and how many of its calls were admitted
RateLimiterInit ==
    /\ files = [x \in {} |-> << >>]
    /\ inv = [p \in {} |-> Idle]
    /\ pure = [ fn |-> "checkRateLimit", now |-> 0,
                requests |-> [t \in {} |-> [count |-> 0, resetTime |-> 0]],
                served |-> << >> ]

\* the entry of served for a handler
Served(operationType, now, calls, outcome) ==
    [ type |-> operationType, time |-> now, calls |-> calls,
      admitted |-> outcome.admitted, threw |-> outcome.threw ]

\* the limiter after a handler that read the clock at now
AfterHandler(operationType, now, calls, outcome) ==
    [ fn |-> "checkRateLimit", now |-> now, requests |-> outcome.requests,
      served |-> Append(pure.served, Served(operationType, now, calls, outcome)) ]

\* a handler runs: it calls checkRateLimit for each of its items
HandleRequest ==
    /\ pure.fn = "checkRateLimit"
    /\ Len(pure.served) < MaxHandlers
    /\ \E operationType \in OperationTypes : \E delay \in Delays :
          \E calls \in CallCounts(operationType) :
             pure' = AfterHandler(operationType, pure.now + delay, calls,
                                  CheckMany(CheckedSoFar(pure.requests, 0, FALSE),
                                            operationType, pure.now + delay, calls))
    /\ UNCHANGED <<files, inv>>

RateLimiterNext == HandleRequest

RateLimiterSpec == RateLimiterInit /\ [][RateLimiterNext]_vars

\* ------------------------------------------------------------------------
\* Properties
\* ------------------------------------------------------------------------

Callers == DOMAIN inv

Done(p) == inv[p].pc = "done"

Running(p) == inv[p].pc \notin {"idle", "done"}

Result(p) == inv[p].result[1]

TargetFile(p) == FileAt(files, inv[p].operation.filePath)

BackupExists(p) == Exists(files, BackupPathOf(inv[p].operation.filePath))

\* the target file holds what it held when the call was made
FileUnchanged(p) == TargetFile(p) = inv[p].before

\* the strategy ran, verification passed, and it reported conflicts
ConflictsReported(p) ==
    /\ Len(inv[p].conflicts) > 0
    /\ inv[p].trigger \notin {<<Error(<<"Change verification failed">>, << >>)>>}

\* C1: an invocation that returns success=false leaves the target file with
\* the content it had before the call, whichever step failed.
C1_FailureLeavesFileUnchanged ==
    \A p \in Callers : Done(p) /\ ~Result(p).success => FileUnchanged(p)

\* C2: the target file differs from its content before the call only if the
\* strategy reported changesApplied > 0 and no conflict; in every other
\* outcome the file is the same after the call as before it.
C2_FileMutatedOnlyOnCleanChanges ==
    \A p \in Callers :
        inv[p].pc # "idle" /\ ~(inv[p].changesApplied > 0 /\ Len(inv[p].conflicts) = 0)
            => FileUnchanged(p) /\ ~inv[p].wrote

\* C2 witness: a call returned with changes and conflicts both reported, under
\* conflictResolution "force", and the file is as before.
C2_Witness ==
    \E p \in Callers :
        /\ Done(p) /\ Result(p).success
        /\ inv[p].changesApplied > 0 /\ Len(inv[p].conflicts) > 0
        /\ inv[p].operation.conflictResolution = "force"
        /\ Len(inv[p].before) = 1 /\ <<inv[p].newContent>> # inv[p].before
        /\ FileUnchanged(p)

\* how many steps an invocation has left at most, by the await it stands at
StepsLeft(r) ==
    CASE r.pc = "createAtomicContext" -> 12
      [] r.pc = "readFile" -> 11
      [] r.pc = "strategy" -> 10
      [] r.pc = "verifyChanges" -> 9
      [] r.pc \in {"writeFile", "handleConflicts"} -> 8
      [] r.pc = "commit" -> 7
      [] r.pc = "restoreCopy" /\ r.after # "catch" -> 6
      [] r.pc = "restoreDelete" /\ r.after # "catch" -> 5
      [] r.pc = "catch" -> 4
      [] r.pc = "restoreCopy" /\ r.after = "catch" -> 3
      [] r.pc = "restoreDelete" /\ r.after = "catch" -> 2
      [] OTHER -> 0

\* C3: applyPatch never raises: every invocation ends by returning a
\* PatchResult (a running invocation stands at an await of applyPatch, and
\* every step brings it closer to its return), and a result with
\* success=false carries an error message and changesApplied=0.
C3_AlwaysReturnsResult ==
    /\ [](\A p \in Callers :
            /\ Running(p) => StepsLeft(inv[p]) > 0
            /\ Done(p) =>
                 /\ Len(inv[p].result) = 1
                 /\ Result(p).kind = "returned"
                 /\ ~Result(p).success =>
                       /\ Len(Result(p).error) = 1
                       /\ Len(Result(p).error[1].message) > 0
                       /\ Result(p).changesApplied = 0)
    /\ [][\A p \in Callers : Running(p) => StepsLeft(inv'[p]) < StepsLeft(inv[p])]_vars

\* C3 witness: the rollback of the inner catch itself threw, after a write
\* that succeeded, and the call still returned a failure result.
C3_Witness ==
    \E p \in Callers :
        /\ Done(p) /\ ~Result(p).success
        /\ inv[p].wrote /\ inv[p].rollbackCalls > 0 /\ inv[p].rollbacks = 0

\* C4: with conflicts reported and conflictResolution "force", after the call
\* the target file holds the strategy's new content and the result has
\* success=true with a non-empty conflicts array.
C4_ForceCommitsNewContent ==
    \A p \in Callers :
        Done(p) /\ ConflictsReported(p) /\ inv[p].faults = 0
                /\ inv[p].operation.conflictResolution = "force"
            => /\ Result(p).success
               /\ Len(Result(p).conflicts) > 0
               /\ TargetFile(p) = <<inv[p].newContent>>

\* C5: with conflicts reported and conflictResolution "revert", the file is
\* left unchanged and the result has success=false.
C5_RevertReturnsFailure ==
    \A p \in Callers :
        Done(p) /\ ConflictsReported(p) /\ inv[p].operation.conflictResolution = "revert"
            => FileUnchanged(p) /\ ~Result(p).success

\* C6: with conflicts reported and conflictResolution absent or "manual", the
\* file is left unchanged and the result has success=false with the error
\* "Unresolved conflicts: <conflict list>", with and without a backup.
C6_UnresolvedConflictsReported ==
    \A p \in Callers :
        Done(p) /\ ConflictsReported(p) /\ inv[p].faults = 0
                /\ inv[p].operation.conflictResolution \in {"none", "manual"}
            => /\ FileUnchanged(p)
               /\ ~Result(p).success
               /\ Result(p).error = <<Error(<<"Unresolved conflicts">>, inv[p].conflicts)>>

\* C7: an invocation with createBackup=true that returns success=true leaves
\* no <filePath>.bak behind, whatever its changesApplied, and the backup
\* exists while the invocation is between backup creation and its end.
C7_NoBackupAfterSuccess ==
    \A p \in Callers :
        /\ Done(p) /\ inv[p].operation.createBackup /\ Result(p).success
              => ~BackupExists(p)
        /\ Running(p) /\ Len(inv[p].backedUp) = 1
              /\ inv[p].commits = 0 /\ inv[p].rollbacks = 0
              => BackupExists(p)

\* C8: when an invocation with createBackup=true was rolled back after its
\* backup was created, then at its return the target file holds the content
\* that was backed up and no <filePath>.bak remains.
C8_RollbackRestoresBackup ==
    \A p \in Callers :
        Done(p) /\ inv[p].operation.createBackup /\ inv[p].rollbacks > 0
            => TargetFile(p) = inv[p].backedUp /\ ~BackupExists(p)

\* C8 witness: the new content was written, the commit failed, and the
\* rollback restored the file.
C8_Witness ==
    \E p \in Callers :
        /\ Done(p) /\ inv[p].operation.createBackup /\ inv[p].rollbacks > 0
        /\ inv[p].wrote /\ <<inv[p].newContent>> # inv[p].backedUp

\* C9: every invocation that created a backup performs, before it returns,
\* exactly one terminal step: one commit or one rollback, never both, never
\* neither, and never the same step twice.
C9_ExactlyOneTerminalStep ==
    \A p \in Callers :
        Done(p) /\ Len(inv[p].backedUp) = 1 /\ inv[p].faults = 0
            => /\ inv[p].commits + inv[p].rollbacks = 1
               /\ inv[p].rollbackCalls <= 1

\* C10: when a step fails and the rollback that follows fails too or finds the
\* backup gone, the error that applyPatch returns is still the error of the
\* step that failed first (stated here for the invocations in which no
\* file-system call failed on an existing path).
C10_OriginalErrorReported ==
    \A p \in Callers :
        Done(p) /\ Len(inv[p].trigger) = 1 /\ inv[p].faults = 0
            => ~Result(p).success /\ Result(p).error = inv[p].trigger

\* the matcher of the line strategy accepts no line of the content
NoLineMatches(content, operation, config) ==
    LET lines == SplitOn(content, NL)
    IN  \A k \in 1..Len(lines) :
            ~matchesWithTokens(normalizeContent(lines[k], config),
                               createTokenPattern(operation.search, config))

\* the matcher of the block strategy accepts no chunk of the content
NoChunkMatches(content, operation, config) ==
    LET chunks == splitIntoChunks(content, CHUNK_SIZE)
        pattern == createBlockTokenPattern(normalizeContent(operation.search, config), config)
    IN  \A k \in 1..Len(chunks) : ~matchesWithTokens(chunks[k], RegExpSource(pattern))

\* the operation of p is a line operation by search text or a block
\* operation, and its pattern matches nothing in the content that was read
SearchMatchesNothing(p) ==
    LET operation == inv[p].operation
        config == EffectiveConfig(operation)
    IN  \/ /\ operation.type = "line" /\ ~operation.hasLineNumbers
           /\ Len(operation.search) > 0
           /\ NoLineMatches(inv[p].content, operation, config)
        \/ /\ operation.type = "block"
           /\ Len(operation.search) > 0 /\ operation.hasReplace /\ Len(operation.replace) > 0
           /\ NoChunkMatches(inv[p].content, operation, config)

\* C11: a line or block operation whose search pattern matches nothing (no
\* line, no chunk) yields changesApplied=0 and no conflicts, and the target
\* file is byte for byte what it was before the call; nothing is written.
C11_NoMatchNoChange ==
    \A p \in Callers :
        Done(p) /\ SearchMatchesNothing(p)
            => /\ Result(p).changesApplied = 0 /\ inv[p].changesApplied = 0
               /\ Len(Result(p).conflicts) = 0 /\ Len(inv[p].conflicts) = 0
               /\ FileUnchanged(p) /\ ~inv[p].wrote

\* C11 witness: a block operation matched no chunk of a file whose text
\* differs from its normalized form, and returned success.
C11_Witness ==
    \E p \in Callers :
        /\ Done(p) /\ Result(p).success /\ SearchMatchesNothing(p)
        /\ inv[p].operation.type = "block"
        /\ inv[p].before # <<inv[p].content>>

\* C13: a line operation that deletes by the explicit line number N a line
\* holding TODO or IMPORTANT (lineNumbers [N], no replace text, no
\* conflictResolution) returns a result whose conflicts array contains
\* "Line N: Cannot delete protected line", with changesApplied=0, and the
\* file is as before the call (stated for the invocations in which no
\* file-system call failed on an existing path).
C13_ProtectedDeletionReported ==
    \A p \in Callers :
        LET operation == inv[p].operation
            lines == SplitOn(inv[p].content, NL)
        IN  /\ Done(p) /\ inv[p].faults = 0
            /\ operation.type = "line" /\ operation.hasLineNumbers /\ ~operation.hasReplace
            /\ operation.conflictResolution = "none"
            /\ Len(operation.lineNumbers) = 1
            /\ operation.lineNumbers[1] \in 1..Len(lines)
            /\ Includes(lines[operation.lineNumbers[1]], TODO)
                  \/ Includes(lines[operation.lineNumbers[1]], IMPORTANT)
            => /\ \E k \in 1..Len(Result(p).conflicts) :
                     Result(p).conflicts[k] =
                         Conflict(operation.lineNumbers[1], "Cannot delete protected line")
               /\ Result(p).changesApplied = 0
               /\ FileUnchanged(p)

\* the line holds one of the markers
IsProtected(line) == Includes(line, TODO) \/ Includes(line, IMPORTANT)

\* the protected lines among lines, in their order
ProtectedLines(lines) == SelectSeq(lines, IsProtected)

\* the line (1-based) the next iteration of the line strategy acts on: the
\* line number at hand when it is in range, the line at hand when the matcher
\* accepts it; 0 when the iteration acts on no line
TargetedLine ==
    IF pure.pc # "loop" THEN 0
    ELSE IF pure.operation.hasLineNumbers
    THEN IF Len(pure.rest) > 0 /\ Head(pure.rest) \in 1..Len(pure.acc.lines)
         THEN Head(pure.rest) ELSE 0
    ELSE IF /\ Len(pure.operation.search) > 0
            /\ pure.i < Len(pure.acc.lines)
            /\ matchesWithTokens(normalizeContent(pure.acc.lines[pure.i + 1], pure.config),
                                 createTokenPattern(pure.operation.search, pure.config))
         THEN pure.i + 1 ELSE 0

\* C12: in the line strategy (by line numbers or by search text, replacing or
\* deleting, with any list of line numbers) no line that holds TODO or
\* IMPORTANT is deleted or replaced: the protected lines of the running and
\* of the resulting content are those of the original content, unchanged
\* and in the same order (the replacement text of the inputs holds no
\* marker), and every iteration that acts on a protected line changes no
\* line, counts no change and adds the conflict naming that line.
C12_ProtectedLinesKept ==
    /\ [](/\ ProtectedLines(pure.acc.lines) = ProtectedLines(SplitOn(pure.content, NL))
          /\ pure.pc = "returned" =>
                /\ pure.result[1] =
                       handleLineOperation(pure.content, pure.operation, pure.config)
                /\ ProtectedLines(SplitOn(pure.result[1].content, NL)) =
                       ProtectedLines(SplitOn(pure.content, NL)))
    /\ [][TargetedLine # 0 /\ IsProtected(pure.acc.lines[TargetedLine])
             => /\ pure.acc.lines' = pure.acc.lines
                /\ pure.acc.changes' = pure.acc.changes
                /\ pure.acc.conflicts' =
                      Append(pure.acc.conflicts,
                             Conflict(TargetedLine,
                                      IF pure.operation.hasReplace
                                      THEN "Invalid change detected"
                                      ELSE "Cannot delete protected line"))]_vars

\* C12 witness: the strategy returned after it deleted a line and refused to
\* delete a protected line that follows it.
C12_Witness ==
    /\ pure.pc = "returned"
    /\ ~pure.operation.hasReplace
    /\ pure.result[1].changes > 0 /\ Len(pure.result[1].conflicts) > 0
    /\ ~IsProtected(SplitOn(pure.content, NL)[1])
    /\ IsProtected(SplitOn(pure.result[1].content, NL)[1])

\* C14: for a line operation with a non-empty literal search text s (one
\* token or several, with or without spaces and punctuation) and a
\* replacement r no longer than twice s, on content without protected
\* lines: every line whose text equals s is replaced by r, the lines the
\* matcher does not accept stay in place, changesApplied is the number of
\* replaced lines, conflicts is empty, and the file is written with the
\* result (stated for the invocations in which no file-system call failed).
C14_LiteralSearchReplaces ==
    \A p \in Callers :
        LET operation == inv[p].operation
            config == EffectiveConfig(operation)
            lines == SplitOn(inv[p].content, NL)
            newLines == SplitOn(inv[p].newContent, NL)
            equal == {k \in 1..Len(lines) : lines[k] = operation.search}
            accepted == {k \in 1..Len(lines) :
                            matchesWithTokens(normalizeContent(lines[k], config),
                                              createTokenPattern(operation.search, config))}
        IN  /\ Done(p) /\ inv[p].faults = 0 /\ Len(inv[p].before) = 1
            /\ operation.type = "line" /\ ~operation.hasLineNumbers
            /\ Len(operation.search) > 0 /\ operation.hasReplace
            /\ Len(operation.replace) <= 2 * Len(operation.search)
            /\ \A k \in 1..Len(lines) : ~IsProtected(lines[k])
            => /\ Result(p).success
               /\ Len(newLines) = Len(lines)
               /\ \A k \in equal : newLines[k] = operation.replace
               /\ \A k \in (1..Len(lines)) \ accepted : newLines[k] = lines[k]
               /\ Result(p).changesApplied = Cardinality(equal \cup accepted)
               /\ Len(Result(p).conflicts) = 0
               /\ Result(p).changesApplied > 0 => TargetFile(p) = <<inv[p].newContent>>

\* the operation of p is a diff operation whose diff was generated from the
\* content the file held before the call to content B, no file-system call
\* failed, and every hunk applied cleanly
CleanDiffTo(p, B) ==
    /\ Done(p) /\ inv[p].faults = 0
    /\ inv[p].operation.type = "diff"
    /\ Len(inv[p].before) = 1
    /\ inv[p].operation.diff = DiffOf(inv[p].before[1], B)
    /\ \A k \in 1..Len(inv[p].conflicts) : inv[p].conflicts[k].text # "Failed to apply patch"

ReplacedCompletely(p) ==
    /\ Done(p) /\ inv[p].faults = 0
    /\ inv[p].operation.type = "complete"
    /\ Len(inv[p].operation.content) > 0
    /\ inv[p].operation.mergeStrategy \in {"none", "overwrite"}
    /\ Len(inv[p].before) = 1

LacksRequiredField(operation) ==
    \/ operation.type = "complete" /\ Len(operation.content) = 0
    \/ operation.type = "block"
          /\ (Len(operation.search) = 0 \/ ~operation.hasReplace \/ Len(operation.replace) = 0)
    \/ operation.type = "diff" /\ Len(operation.diff) = 0

\* the message applyPatch throws for the missing field
RequiredFieldMessage(operation) ==
    CASE operation.type = "complete" -> <<"Content is required for complete replacement">>
      [] operation.type = "block" -> <<"Search and replace are required for block replacement">>
      [] operation.type = "diff" -> <<"Diff content is required for diff patching">>

\* C17: a complete operation without content, a block operation without
\* search or without replace, and a diff operation without diff text each
\* return success=false with an error string and leave the target file
\* unchanged; with createBackup=true the backup made for the call is gone at
\* the return when no file-system call failed, and without createBackup the
\* call never touches <filePath>.bak.  On an existing file with no failing
\* file-system call the error string is the message for the missing field.
C17_InputErrorsLeaveNoTrace ==
    /\ [](\A p \in Callers :
             Done(p) /\ LacksRequiredField(inv[p].operation)
                 => /\ ~Result(p).success
                    /\ Len(Result(p).error) = 1 /\ Len(Result(p).error[1].message) > 0
                    /\ FileUnchanged(p)
                    /\ (inv[p].operation.createBackup /\ inv[p].faults = 0 => ~BackupExists(p))
                    /\ (inv[p].faults = 0 /\ Len(inv[p].before) = 1
                            => Result(p).error[1].message = RequiredFieldMessage(inv[p].operation)))
    /\ [][\A p \in Callers :
             Running(p) /\ LacksRequiredField(inv[p].operation) /\ ~inv[p].operation.createBackup
                 => FileAt(files', BackupPathOf(inv[p].operation.filePath))
                        = FileAt(files, BackupPathOf(inv[p].operation.filePath))]_vars

\* C17 witness: a block operation without search, with createBackup=true,
\* made its backup, was rolled back and returned the error with the file
\* unchanged and no backup left.
C17_Witness ==
    \E p \in Callers :
        /\ Done(p) /\ LacksRequiredField(inv[p].operation)
        /\ inv[p].operation.type = "block" /\ Len(inv[p].operation.search) = 0
        /\ inv[p].operation.createBackup /\ Len(inv[p].backedUp) = 1
        /\ inv[p].rollbacks = 1 /\ inv[p].faults = 0
        /\ ~Result(p).success /\ FileUnchanged(p) /\ ~BackupExists(p)

\* the final verification of p's call failed
VerificationFailed(p) ==
    inv[p].trigger = <<Error(<<"Change verification failed">>, << >>)>>

\* the check of the operation's type on the content to write
PassesTypeCheck(original, written, operation) ==
    CASE operation.type = "complete" -> verifyCompleteReplacement(original, written)
      [] operation.type = "line" -> verifyLineChanges(original, written)
      [] operation.type = "block" -> verifyBlockChanges(original, written)
      [] operation.type = "diff" -> verifyDiffChanges(original, written)

\* C18: every content that the writeFile of applyPatch puts in the target
\* file is non-empty, contains no null byte and satisfies the check of its
\* operation type against the normalized original; and a call whose final
\* verification failed wrote nothing, called the rollback (which restored
\* and removed the backup when one was made and no file-system call failed)
\* and returned success=false with the file unchanged.
C18_OnlyVerifiedContentWritten ==
    /\ [][\A p \in Callers :
             inv[p].pc = "writeFile" /\ inv'[p].pc = "commit"
                 => LET written == files'[inv[p].operation.filePath]
                    IN  /\ Len(written) > 0
                        /\ ~Includes(written, <<NUL>>)
                        /\ PassesTypeCheck(inv[p].content, written, inv[p].operation)]_vars
    /\ [](\A p \in Callers :
             VerificationFailed(p)
                 => /\ ~inv[p].wrote /\ FileUnchanged(p)
                    /\ (Done(p)
                          => /\ ~Result(p).success
                             /\ (Len(inv[p].backedUp) = 1 => inv[p].rollbackCalls = 1)
                             /\ (Len(inv[p].backedUp) = 1 /\ inv[p].faults = 0
                                   => inv[p].rollbacks = 1 /\ ~BackupExists(p))))

\* C18 witness: a complete replacement by a content with a null character
\* failed the final verification after the backup was made; nothing was
\* written, the rollback restored and removed the backup, and the call
\* returned success=false.
C18_Witness ==
    \E p \in Callers :
        /\ Done(p) /\ VerificationFailed(p)
        /\ inv[p].operation.type = "complete"
        /\ Includes(inv[p].newContent, <<NUL>>)
        /\ Len(inv[p].backedUp) = 1 /\ inv[p].rollbacks = 1
        /\ ~inv[p].wrote /\ ~Result(p).success /\ FileUnchanged(p)

\* the default indentation is blank (or absent) and the default line
\* ending is a line ending (or absent)
HasWhitespaceDefaults(config) ==
    /\ \A k \in 1..Len(config.defaultIndentation) : IsBlank(config.defaultIndentation[k])
    /\ config.defaultLineEnding \in { << >>, <<NL>>, <<CR, NL>>, <<CR>> }

\* C19 as claimed: for every text and every WhitespaceConfig, normalizing
\* the output of normalizeContent again under the same config returns the
\* identical normalized text and the identical hash.
C19_NormalizationFixedPoint ==
    pure.fn = "normalizeContent" /\ pure.pc = "twice"
        => /\ pure.twice.normalized = pure.once.normalized
           /\ pure.twice.hash = pure.once.hash

\* C19 amended: normalization is a fixed point under every WhitespaceConfig
\* whose defaultIndentation consists of spaces and tabs and whose
\* defaultLineEnding is "\n", "\r\n" or "\r" (each may be absent).
C19_NormalizationFixedPointOfWhitespaceDefaults ==
    /\ pure.fn = "normalizeContent" /\ pure.pc = "twice"
    /\ HasWhitespaceDefaults(pure.config)
    => /\ pure.twice.normalized = pure.once.normalized
       /\ pure.twice.hash = pure.once.hash

\* C19 witness: a text that the first pass changed (its line endings, its
\* indentation or its trailing blanks) came out of the second pass as it
\* went in, with the same hash.
C19_Witness ==
    /\ pure.fn = "normalizeContent" /\ pure.pc = "twice"
    /\ HasWhitespaceDefaults(pure.config)
    /\ pure.once.normalized # pure.content
    /\ Len(pure.once.hash) > 0
    /\ pure.twice = pure.once

\* the least number of insertions, deletions and substitutions of one
\* token that turn s into t
RECURSIVE UnitCostDistance(_, _)
UnitCostDistance(s, t) ==
    IF Len(s) = 0 THEN Len(t)
    ELSE IF Len(t) = 0 THEN Len(s)
    ELSE Min3(UnitCostDistance(Tail(s), t) + 1,
              UnitCostDistance(s, Tail(t)) + 1,
              UnitCostDistance(Tail(s), Tail(t)) + (IF Head(s) = Head(t) THEN 0 ELSE 1))

\* the score returned for the pair is the number the claim gives
ScoreAsClaimed ==
    LET score == pure.score[1]
        maxLength == Max(Len(pure.tokens1), Len(pure.tokens2))
        d == UnitCostDistance(pure.tokens1, pure.tokens2)
    IN  /\ ~score.isNaN
        /\ score.den > 0
        /\ score.num * maxLength = (maxLength - d) * score.den
        /\ 0 <= score.num /\ score.num <= score.den
        /\ (pure.tokens1 = pure.tokens2 => score.num = score.den)

SimilarityScoreOfNonEmpty ==
    pure.fn = "calculateSimilarity" /\ pure.pc = "returned"
        /\ Len(pure.tokens1) + Len(pure.tokens2) > 0
        => ScoreAsClaimed

\* how many requests of the type were admitted by the handlers i..j
RECURSIVE AdmittedBetween(_, _, _)
AdmittedBetween(operationType, i, j) ==
    IF i > j THEN 0
    ELSE (IF pure.served[i].type = operationType THEN pure.served[i].admitted ELSE 0)
             + AdmittedBetween(operationType, i + 1, j)

\* C21: the rate limiter admits at most the documented number of requests
\* per minute for each operation type (tool 100, resource 200, watch 20):
\* no 60-second interval contains more admitted requests of one type than
\* its limit, and a request that finds the limit reached is rejected.
C21_RateLimitPerMinute ==
    pure.fn = "checkRateLimit"
        => /\ \A i \in 1..Len(pure.served) : \A j \in i..Len(pure.served) :
                 \A operationType \in DOMAIN limits :
                    pure.served[j].time - pure.served[i].time < 60 * 1000
                        => AdmittedBetween(operationType, i, j)
                               <= limits[operationType].maxRequests
           /\ \A operationType \in DOMAIN pure.requests :
                 pure.requests[operationType].count <= limits[operationType].maxRequests

\* the counter of a window never passes the limit, and a handler is
\* rejected only with the counter at the limit
RateLimitPerWindow ==
    pure.fn = "checkRateLimit"
        => /\ \A operationType \in DOMAIN pure.requests :
                 pure.requests[operationType].count <= limits[operationType].maxRequests
           /\ \A k \in 1..Len(pure.served) :
                 pure.served[k].threw
                     => /\ pure.served[k].type \in DOMAIN limits
                        /\ pure.served[k].admitted < pure.served[k].calls

\* the lines without those at the positions in removed
RECURSIVE LinesWithout(_, _)
LinesWithout(lines, removed) ==
    IF Len(lines) = 0 THEN << >>
    ELSE IF Len(lines) \in removed
    THEN LinesWithout(Slice(lines, 1, Len(lines) - 1), removed)
    ELSE Append(LinesWithout(Slice(lines, 1, Len(lines) - 1), removed), lines[Len(lines)])

\* the line strategy returned from a deletion by line numbers
DeletedByNumbers ==
    /\ pure.fn = "handleLineOperation" /\ pure.pc = "returned"
    /\ pure.operation.hasLineNumbers /\ ~pure.operation.hasReplace

\* the result is the original content without the unprotected lines at the
\* listed positions, with a conflict for nothing but a listed protected line
RemovedAsListed ==
    LET original == SplitOn(pure.content, NL)
        listed == {pure.operation.lineNumbers[k] : k \in 1..Len(pure.operation.lineNumbers)}
                      \cap (1..Len(original))
        removed == {n \in listed : ~IsProtected(original[n])}
    IN  /\ pure.result[1].content = Join(LinesWithout(original, removed), <<NL>>)
        /\ \A k \in 1..Len(pure.result[1].conflicts) :
               /\ pure.result[1].conflicts[k].line \in listed
               /\ IsProtected(original[pure.result[1].conflicts[k].line])

\* C22: for a line operation with explicit lineNumbers and no replace text,
\* each listed number addresses a line of the content as it was before the
\* operation: the lines removed are exactly the unprotected lines at the
\* listed in-bounds positions, whatever the order of the list and however
\* many numbers it holds; out-of-bounds numbers give no conflict.
C22_DeletionByOriginalNumbers == DeletedByNumbers => RemovedAsListed

\* the same for the lists in strictly descending order
DeletionByDescendingNumbers ==
    /\ DeletedByNumbers
    /\ \A k \in 1..(Len(pure.operation.lineNumbers) - 1) :
           pure.operation.lineNumbers[k] > pure.operation.lineNumbers[k + 1]
    => RemovedAsListed

\* the positions of the lines that the matcher of the line strategy accepts
MatchedLines(content, operation, config) ==
    LET lines == SplitOn(content, NL)
    IN  { k \in 1..Len(lines) :
            matchesWithTokens(normalizeContent(lines[k], config),
                              createTokenPattern(operation.search, config)) }

\* the operation deletes by search text, and the lines it matches in the
\* content are some and all unprotected
DeletesMatches(content, operation, config) ==
    /\ operation.type = "line" /\ ~operation.hasLineNumbers
    /\ Len(operation.search) > 0 /\ ~operation.hasReplace
    /\ MatchedLines(content, operation, config) # {}
    /\ \A k \in MatchedLines(content, operation, config) :
           ~IsProtected(SplitOn(content, NL)[k])

\* C23: a line operation with a search pattern and no replace text that
\* matches k >= 1 unprotected lines and no protected line removes all k
\* lines, with changesApplied=k, and applyPatch returns success=true with
\* the shortened content written to the file, for every k and every file
\* content (stated for the calls in which no file-system call failed).
C23_MatchedLinesDeleted ==
    \A p \in Callers :
        LET config == EffectiveConfig(inv[p].operation)
            matched == MatchedLines(inv[p].content, inv[p].operation, config)
        IN  /\ Done(p) /\ inv[p].faults = 0 /\ Len(inv[p].before) = 1
            /\ DeletesMatches(inv[p].content, inv[p].operation, config)
            => /\ Result(p).success
               /\ Result(p).changesApplied = Cardinality(matched)
               /\ inv[p].wrote
               /\ TargetFile(p) = <<Join(LinesWithout(SplitOn(inv[p].content, NL), matched),
                                         <<NL>>)>>

\* the line strategy on its own removes every matching line, adjacent ones
\* included, and counts them
StrategyDeletesMatches ==
    /\ pure.fn = "handleLineOperation" /\ pure.pc = "returned"
    /\ DeletesMatches(pure.content, pure.operation, pure.config)
    => /\ pure.result[1].changes
              = Cardinality(MatchedLines(pure.content, pure.operation, pure.config))
       /\ pure.result[1].content
              = Join(LinesWithout(SplitOn(pure.content, NL),
                                  MatchedLines(pure.content, pure.operation, pure.config)),
                     <<NL>>)
       /\ Len(pure.result[1].conflicts) = 0

\* the diff strategy is in its loop over the patches
InDiffLoop == pure.fn = "handleDiffOperation" /\ pure.pc = "loop"

\* C24: in the diff strategy the parsed patches are applied one after
\* another to the running content: a patch that fails to apply or fails its
\* validation adds exactly one conflict, leaves the running content
\* unchanged and does not stop the processing of later patches; an accepted
\* patch replaces the running content and adds one to changesApplied; so
\* changesApplied plus the number of conflicts equals the number of parsed
\* patches, also at every point of the loop for the patches gone through.
C24_EveryPatchCounted ==
    /\ [][InDiffLoop /\ Len(pure.rest) > 0
            => LET patchResult == ApplyPatch(pure.acc.newContent, Head(pure.rest))
                   accepted == /\ patchResult.ok
                               /\ validateDiffChange(pure.acc.newContent, patchResult.content)
               IN  /\ pure'.pc = "loop" /\ pure'.rest = Tail(pure.rest)
                   /\ accepted
                        => /\ pure'.acc.newContent = patchResult.content
                           /\ pure'.acc.changes = pure.acc.changes + 1
                           /\ pure'.acc.conflicts = pure.acc.conflicts
                   /\ ~accepted
                        => /\ pure'.acc.newContent = pure.acc.newContent
                           /\ pure'.acc.changes = pure.acc.changes
                           /\ Len(pure'.acc.conflicts) = Len(pure.acc.conflicts) + 1]_vars
    /\ [](InDiffLoop
            => pure.acc.changes + Len(pure.acc.conflicts)
                   = Len(pure.operation.diff) - Len(pure.rest))
    /\ [](pure.fn = "handleDiffOperation" /\ pure.pc = "returned"
            => /\ pure.result[1].changes + Len(pure.result[1].conflicts)
                   = Len(pure.operation.diff)
               /\ LET r == handleDiffOperation(pure.content, pure.operation)
                  IN  pure.result[1] = StrategyResult(r.content, r.changes, r.conflicts))

\* C24 witness: of two patches the first failed to apply and the second was
\* accepted and changed the content.
C24_Witness ==
    /\ pure.fn = "handleDiffOperation" /\ pure.pc = "returned"
    /\ Len(pure.operation.diff) = 2
    /\ ~ApplyPatch(pure.content, pure.operation.diff[1]).ok
    /\ pure.result[1].changes = 1 /\ Len(pure.result[1].conflicts) = 1
    /\ pure.result[1].content # pure.content

\* the three-way merge is in its walk
InMerge == pure.fn = "performThreeWayMerge" /\ pure.pc = "loop"

\* the most tokens of the three sequences of the merge
MergePositions ==
    Max(Len(pure.baseTokens), Max(Len(pure.currentTokens), Len(pure.targetTokens)))

\* at position at the three tokens differ from one another
IsConflictPosition(at) ==
    LET b == TokenAt(pure.baseTokens, at)
        c == TokenAt(pure.currentTokens, at)
        t == TokenAt(pure.targetTokens, at)
    IN  c # t /\ c # b /\ t # b

\* C25: the three-way merge walks the base, current and target token
\* sequences in lock-step, one position per step, until all three are
\* exhausted; at each position the output token is chosen by the first case
\* that applies: current equals target -> that token; current equals base ->
\* target's token; target equals base -> current's token; otherwise one
\* conflict is recorded and current's token is taken (target's when current
\* is exhausted).  The number of conflicts equals the number of positions
\* in the last case, and merging a content with an identical proposed
\* content returns it unchanged with no conflicts.
C25_LockStepMerge ==
    /\ [][InMerge /\ pure.at <= MergePositions
            => LET b == TokenAt(pure.baseTokens, pure.at)
                   c == TokenAt(pure.currentTokens, pure.at)
                   t == TokenAt(pure.targetTokens, pure.at)
                   taken == IF c = t THEN c
                            ELSE IF c = b THEN t
                            ELSE IF t = b THEN c
                            ELSE IF pure.at <= Len(pure.currentTokens) THEN c ELSE t
               IN  /\ pure'.pc = "loop" /\ pure'.at = pure.at + 1
                   /\ pure'.acc.merged = Append(pure.acc.merged, taken)
                   /\ Len(pure'.acc.conflicts)
                        = Len(pure.acc.conflicts) + (IF IsConflictPosition(pure.at) THEN 1 ELSE 0)]_vars
    /\ [][InMerge /\ pure.at > MergePositions => pure'.pc = "returned"]_vars
    /\ [](pure.fn = "performThreeWayMerge" /\ pure.pc = "returned"
            => /\ pure.at = MergePositions + 1
               /\ Len(pure.result[1].conflicts)
                    = Cardinality({at \in 1..MergePositions : IsConflictPosition(at)})
               /\ pure.result[1] = performThreeWayMerge(pure.base, pure.current, pure.target)
               /\ pure.current = pure.target
                    => /\ pure.result[1].normalized = pure.current
                       /\ pure.result[1].conflicts = << >>)

\* C25 witness: a merge that took target's token where current equals base,
\* and recorded a conflict at a later position.
C25_Witness ==
    /\ pure.fn = "performThreeWayMerge" /\ pure.pc = "returned"
    /\ Len(pure.baseTokens) > 0 /\ Len(pure.currentTokens) > 0 /\ Len(pure.targetTokens) > 0
    /\ pure.currentTokens[1] = pure.baseTokens[1]
    /\ pure.targetTokens[1] # pure.baseTokens[1]
    /\ pure.result[1].normalized[1] = pure.targetTokens[1][1]
    /\ Len(pure.result[1].conflicts) = 1

\* C25 witness: a content merged with an identical proposed content over a
\* longer base.
C25_WitnessIdentical ==
    /\ pure.fn = "performThreeWayMerge" /\ pure.pc = "returned"
    /\ pure.current = pure.target /\ Len(pure.current) > 0
    /\ Len(pure.baseTokens) > Len(pure.currentTokens)

\* the block strategy has returned
BlockReturned == pure.fn = "handleBlockOperation" /\ pure.pc = "returned"

\* the chunk passes the similarity match of the block strategy
ChunkMatches(chunk) == matchesWithTokens(chunk, RegExpSource(pure.flexPattern))

\* the chunk obtained from chunk by the substitution
Substituted(chunk) == ReplacePattern(chunk, pure.flexPattern, pure.replaceNormalized)

\* a text has as many { as } and a length within [0.5, 2] times that of the
\* chunk
WithinBlockLimits(chunk, text) ==
    /\ Cardinality({k \in 1..Len(text) : text[k] = "{"})
         = Cardinality({k \in 1..Len(text) : text[k] = "}"})
    /\ 2 * Len(text) >= Len(chunk)
    /\ Len(text) <= 2 * Len(chunk)

\* C26: in the block strategy a chunk that passes the similarity match is
\* modified only if the chunk obtained by the substitution has a balanced
\* brace count and a length within [0.5x, 2x] of the original chunk's
\* length; a chunk failing this validation is left unmodified and exactly
\* one conflict is recorded for it, and changesApplied counts only the
\* chunks whose substitution was accepted.
C26_SubstitutedChunkValidated ==
    BlockReturned
        => LET accepted == {k \in 1..Len(pure.done) :
                               /\ ChunkMatches(pure.done[k].chunk)
                               /\ WithinBlockLimits(pure.done[k].chunk,
                                                    Substituted(pure.done[k].chunk))}
               failing == {k \in 1..Len(pure.done) :
                               /\ ChunkMatches(pure.done[k].chunk)
                               /\ ~WithinBlockLimits(pure.done[k].chunk,
                                                     Substituted(pure.done[k].chunk))}
           IN  /\ \A k \in 1..Len(pure.done) :
                     pure.done[k].appended = IF k \in accepted
                                             THEN Substituted(pure.done[k].chunk)
                                             ELSE pure.done[k].chunk
               /\ pure.result[1].changes = Cardinality(accepted)
               /\ Len(pure.result[1].conflicts) = Cardinality(failing)

\* What the block strategy does: the test is made on the replacement text,
\* not on the chunk obtained by the substitution.
BlockValidatesReplacementText ==
    BlockReturned
        => LET accepted == {k \in 1..Len(pure.done) :
                               /\ ChunkMatches(pure.done[k].chunk)
                               /\ WithinBlockLimits(pure.done[k].chunk, pure.replaceNormalized)}
               failing == {k \in 1..Len(pure.done) :
                               /\ ChunkMatches(pure.done[k].chunk)
                               /\ ~WithinBlockLimits(pure.done[k].chunk, pure.replaceNormalized)}
           IN  /\ \A k \in 1..Len(pure.done) :
                     pure.done[k].appended = IF k \in accepted
                                             THEN Substituted(pure.done[k].chunk)
                                             ELSE pure.done[k].chunk
               /\ pure.result[1].changes = Cardinality(accepted)
               /\ Len(pure.result[1].conflicts) = Cardinality(failing)
               /\ pure.result[1] = handleBlockOperation(pure.content, pure.operation,
                                                        EffectiveConfig(pure.operation))

\* no file-system call of either invocation failed on an existing path
NoFaultOfAny == \A p \in Callers : inv[p].faults = 0

\* the invocation of p entered a rollback that ended without completing
RollbackBroken(p) ==
    /\ inv[p].rollbackCalls > inv[p].rollbacks
    /\ inv[p].pc \notin {"restoreCopy", "restoreDelete"}

\* C27: when two applyPatch invocations on the same file path interleave at
\* their I/O steps, the content written by an invocation that returned
\* success=true is never overwritten by the other invocation's rollback
\* (the other wrote nothing, so the file holds what the first wrote), and
\* neither invocation's rollback fails because the other deleted or
\* replaced the shared backup file (no file-system call failed otherwise).
C27_InvocationsDoNotInterfere ==
    NoFaultOfAny
        => \A p \in Callers : \A q \in Callers \ {p} :
              /\ (/\ Done(p) /\ inv[p].result[1].success /\ inv[p].wrote
                  /\ ~inv[q].wrote)
                    => FileAt(files, FilePath) = <<inv[p].newContent>>
              /\ ~RollbackBroken(q)

\* the call of p was a line operation on an existing file that returned
\* success=true and wrote
LineCallWrote(p) ==
    /\ Done(p) /\ Result(p).success /\ inv[p].wrote
    /\ inv[p].operation.type = "line" /\ Len(inv[p].before) = 1

\* the positions of the lines that the line operation of p addresses: the
\* listed numbers, or the lines its pattern matches
AddressedLines(p) ==
    IF inv[p].operation.hasLineNumbers
    THEN {inv[p].operation.lineNumbers[k] : k \in 1..Len(inv[p].operation.lineNumbers)}
    ELSE MatchedLines(inv[p].content, inv[p].operation, EffectiveConfig(inv[p].operation))

\* the lines at the positions in at are the same in both sequences
SameLinesAt(a, b, at) == \A k \in at : k <= Len(a) /\ k <= Len(b) /\ a[k] = b[k]

\* s is t with some of its elements left out
RECURSIVE IsSubsequence(_, _)
IsSubsequence(s, t) ==
    IF Len(s) = 0 THEN TRUE
    ELSE IF Len(t) = 0 THEN FALSE
    ELSE IF Head(s) = Head(t) THEN IsSubsequence(Tail(s), Tail(t))
    ELSE IsSubsequence(s, Tail(t))

RECURSIVE LinesOfChunks(_)
LinesOfChunks(chunks) ==
    IF Len(chunks) = 0 THEN << >>
    ELSE SplitOn(Head(chunks), NL) \o LinesOfChunks(Tail(chunks))

\* processFile has nothing left to run, after a pipeline that finished
\* without error
StreamFinished == pure.fn = "processFile" /\ pure.pc = "pipelineFulfilled"

\* processFile has nothing left to run, after a pipeline that failed
StreamFailed ==
    /\ pure.fn = "processFile" /\ pure.pc = "done"
    /\ Exists(files, FilePath) \/ Len(pure.original) = 0

\* C29: processFile always settles: when the read -> transform -> write
\* pipeline finishes without error, every part of the input has been passed
\* to the processor exactly once, the temporary file <filePath>.tmp replaces
\* the original file and the returned promise resolves with one ChunkResult
\* per processed chunk; when the pipeline fails, the original file is
\* untouched and the promise rejects (the temporary file is removed when
\* its unlink does not fail).
C29_ProcessFileSettles ==
    /\ StreamFinished
         => /\ pure.settled = "resolved"
            /\ Len(pure.original[1]) > 0
                 => LinesOfChunks(pure.passed) = SplitOn(pure.original[1], NL)
            /\ ~Exists(files, TempPathOf(FilePath))
            /\ Len(pure.value) = 1 /\ Len(pure.value[1]) = Len(pure.passed)
    /\ StreamFailed
         => /\ pure.settled = "rejected"
            /\ FileAt(files, FilePath) = pure.original
            /\ pure.unlinked => ~Exists(files, TempPathOf(FilePath))

\* What processFile does: it settles only by rejecting, after a failure,
\* with the original file untouched; it never resolves and never replaces
\* the original file.
ProcessFileOnlyRejects ==
    pure.fn = "processFile"
        => /\ pure.settled # "resolved"
           /\ FileAt(files, FilePath) = pure.original
           /\ StreamFinished => pure.settled = "pending" /\ Exists(files, TempPathOf(FilePath))
           /\ StreamFailed => /\ pure.settled = "rejected"
                              /\ pure.unlinked => ~Exists(files, TempPathOf(FilePath))

\* C30: after unwatch(path) (or the watcher's close()) returns,
\* isWatching(path) is false and no further change or rename event is
\* emitted for that watch, even when a native file-system event arrived
\* less than the debounce time before the unwatch and its debounce timer is
\* still pending.
C30_NoEventAfterUnwatch ==
    pure.fn = "WatchService"
        => /\ \A watcher \in pure.closed :
                 isWatching(WatchPath) => pure.watchers[WatchPath] # watcher
           /\ \A k \in 1..Len(pure.emitted) : ~pure.emitted[k].late

\* What holds: a closed watch is no longer in watchers and its native
\* watcher takes no further native event; the events emitted after the
\* close are those of the timers and handlers that were pending at it.
ClosedWatchIsNotWatched ==
    /\ [](pure.fn = "WatchService"
            => \A watcher \in pure.closed :
                  /\ isWatching(WatchPath) => pure.watchers[WatchPath] # watcher
                  /\ watcher \notin pure.native)
    /\ [][pure.fn = "WatchService"
            => \A watcher \in pure.closed :
                  \A x \in DOMAIN pure'.debounceTimers :
                      pure'.debounceTimers[x].watcher = watcher
                          => /\ x \in DOMAIN pure.debounceTimers
                             /\ pure.debounceTimers[x] = pure'.debounceTimers[x]]_vars

====
